---- MODULE Spec2Model ----
(***************************************************************************)
(* lavfi-preview (src/main.cpp): the render/UI thread, the per-output      *)
(* worker threads and the filter graph editor, as one state machine.       *)
(*                                                                         *)
(* Indices, node ids and slot (edge) ids keep the 0-based values of the    *)
(* code; a TLA+ sequence s is indexed with At(s, i) == s[i + 1].           *)
(***************************************************************************)
EXTENDS Integers, Sequences, FiniteSets, TLC

\* ------------------------------------------------------------------ bounds
MaxNodes == 2
MaxLinks == 1
MaxFrames == 2
\* The nodes of the windows on their own (SpecUI).
MaxEditorNodes == 3

\* ------------------------------------------------------- the graph engine
\* The filter kinds the user picks in the "Add Filter" popup here: a video
\* source and the video sink.
FilterKinds == {"testsrc", "buffersink"}

\* The kinds of SpecUI: a video source that takes commands for its integer
\* options, a video source that takes commands for color options and,
\* after them, integer ones, an audio sink and the video sink.
EditorKinds == {"zoneplate", "gradients", "anullsink", "buffersink"}

\* The kinds of SpecTimeline: a video source, a one-in/one-out video filter
\* with timeline support, and the video sink.
TimelineKinds == {"testsrc", "edgedetect", "buffersink"}

nb_inputs(kind) == IF kind \in {"testsrc", "zoneplate", "gradients"} THEN 0 ELSE 1

nb_outputs(kind) == IF kind \in {"buffersink", "anullsink"} THEN 0 ELSE 1

\* avfilter_pad_get_type of the pads of a filter of this kind.
PadType(kind) == IF kind = "anullsink" THEN "audio" ELSE "video"

\* ctx->filter->flags & AVFILTER_FLAG_SUPPORT_TIMELINE
supports_timeline(kind) == kind = "edgedetect"

\* ctx->filter->process_command != NULL
process_command(kind) == kind \in {"zoneplate", "gradients"}

\* The options av_opt_next enumerates for a kind that pass the tests of
\* lines 1266-1274 (AV_OPT_FLAG_RUNTIME_PARAM, a non-NULL av_opt_ptr), by
\* type and in order; opt_index counts them from 0. One option per type
\* stands for a run of options of that type.
RuntimeOptions(kind) ==
    IF kind = "zoneplate" THEN <<"int">>
    ELSE IF kind = "gradients" THEN <<"color", "int">>
    ELSE <<>>

\* The types the switch of lines 1322-1462 has a case for.
Cached(type) == type \in {"flags", "bool", "int", "int64", "uint64", "double",
                          "float", "string"}

\* The values of the int option of a kind that takes commands; the first
\* is its default.
OptValues == {0, 1}

OptDefault == 0

\* strcmp(filter_ctx->filter->name, "buffersink") == 0
IsBufferSink(kind) == kind = "buffersink"

\* ---------------------------------------------------------------- helpers
At(s, i) == s[i + 1]

Idx(s) == 0 .. (Len(s) - 1)

SetAt(s, i, v) == [s EXCEPT ![i + 1] = v]

\* AVFrame pointers of a BufferSink: NullFrame is NULL, Uninit is the value
\* of a field the constructor-less struct never assigned; 1 and 2 are the
\* two AVFrame objects av_frame_alloc() returned for that sink.
NullFrame == 0

Uninit == -1

\* What the render loop remembers of its pick when it has picked nothing.
NoPick == [staged |-> FALSE, pts |-> 0]

\* A sink nothing was displayed for since the system was last unpaused or
\* single-stepped (what was displayed before is not kept).
NotShown == [pts |-> -1, quiet |-> FALSE, staged |-> FALSE]

VARIABLES
    filter_nodes,            \* std::vector<FilterNode>
    filter_links,            \* std::vector<std::pair<int,int>>
    edge2pad,                \* std::vector<Edge2Pad>
    edge2type,               \* media type by slot
    filter_graph,            \* "null" | "live"
    graphdump_text,          \* "null" | "text"
    buffer_sinks,            \* std::vector<BufferSink>
    av_frames,               \* content of the two AVFrame objects per sink
    mutexes,                 \* std::vector<std::mutex>: "free" | "worker"
    video_sink_threads,      \* std::vector<std::thread>: each thread's position
    need_filters_reinit,
    framestep,
    paused,
    show_buffersink_window,
    sink_pts,                \* engine: frames delivered so far, per sink
    setup_ret,               \* what the last call of filters_setup() did
    mpc,                     \* position of the render/UI thread in main()
    sink_i,                  \* loop index of the render loop
    render_frame,            \* local of the render loop
    picked,                  \* what the render loop saw when it picked
    drawn,                   \* frame handed to load_frame in this iteration
    shown,                   \* per sink: what was last handed to load_frame
    ui_event,                \* what the user did in the last pass of the windows
    sent,                    \* the command that pass sent to the engine, if any
    priv_class,              \* option table of the filter whose options are drawn
    probe_priv,              \* per node: option values held by node.probe->priv
    rate,                    \* static AVRational rate of draw_node_options
    opt_edit,                \* the widget the user changed in the last pass
    selection,               \* the selected links ImNodes handed to the last pass
    stepped                  \* the sinks swapped for the single step last asked for

vars == <<filter_nodes, filter_links, edge2pad, edge2type, filter_graph,
          graphdump_text, buffer_sinks, av_frames, mutexes,
          video_sink_threads, need_filters_reinit, framestep, paused,
          show_buffersink_window, sink_pts, setup_ret, mpc, sink_i, render_frame,
          picked, drawn, shown, ui_event, sent, priv_class, probe_priv, rate,
          opt_edit, selection, stepped>>

graph_vars == <<filter_nodes, filter_links, edge2pad, edge2type,
                filter_graph, graphdump_text, setup_ret>>

\* What only the "Options" lists of the editor read or write.
option_vars == <<priv_class, probe_priv, rate, opt_edit>>

main_vars == <<mpc, sink_i, render_frame, picked, drawn, shown, ui_event, sent,
               option_vars, selection, stepped>>

flag_vars == <<need_filters_reinit, framestep, paused, show_buffersink_window>>

\* static AVRational rate = (AVRational){ 0, 0 };  (line 861)
NoRate == [num |-> 0, den |-> 0]

\* No widget of an "Options" list was changed in a pass.
NoWidget == [node |-> -1, opt |-> -1, value |-> -1]

\* No call of avfilter_graph_send_command in a pass.
NoCommand == [node |-> -1, cmd |-> "", target |-> <<"", -1>>, arg |-> -1]

\* A pass of the windows in which the user did e and no command was sent.
Event(e) ==
    /\ ui_event' = e
    /\ sent' = NoCommand
    /\ selection' = <<>>
    /\ UNCHANGED option_vars

\* Globals as initialised at lines 87-109; main() is at the top of its loop.
Init ==
    /\ filter_nodes = <<>>
    /\ filter_links = <<>>
    /\ edge2pad = <<>>
    /\ edge2type = <<>>
    /\ filter_graph = "null"
    /\ graphdump_text = "null"
    /\ buffer_sinks = <<>>
    /\ av_frames = <<>>
    /\ mutexes = <<>>
    /\ video_sink_threads = <<>>
    /\ need_filters_reinit = TRUE
    /\ framestep = FALSE
    /\ paused = TRUE
    /\ show_buffersink_window = TRUE
    /\ sink_pts = <<>>
    /\ setup_ret = [ret |-> "none", linked_sinks |-> 0, indexed |-> {}]
    /\ mpc = "poll"
    /\ sink_i = 0
    /\ render_frame = NullFrame
    /\ picked = NoPick
    /\ drawn = NullFrame
    /\ shown = <<>>
    /\ ui_event = "none"
    /\ sent = NoCommand
    /\ priv_class = <<>>
    /\ probe_priv = <<>>
    /\ rate = NoRate
    /\ opt_edit = NoWidget
    /\ selection = <<>>
    /\ stepped = {}

\* ------------------------------------------------------------ worker_thread
\* A worker exists for index i while video_sink_threads[i] does; its sink
\* and mutex are buffer_sinks[i] and mutexes[i] (the pointers it was given).
\* A thread is [pc, ret, filter_frame]: its position and its two locals.
Workers == Idx(video_sink_threads)

WPc(i) == At(video_sink_threads, i).pc

WRet(i) == At(video_sink_threads, i).ret

WFrame(i) == At(video_sink_threads, i).filter_frame

SetW(i, pc, ret, ff) ==
    video_sink_threads' =
        SetAt(video_sink_threads, i, [pc |-> pc, ret |-> ret, filter_frame |-> ff])

HasSink(i) ==
    /\ mpc # "crashed"
    /\ i \in Idx(buffer_sinks) /\ i \in Idx(mutexes) /\ i \in Idx(av_frames)

\* Writing value v into the AVFrame object ff of sink i (nothing for NULL).
WriteFrame(i, ff, v) ==
    IF ff \in {1, 2}
    THEN SetAt(av_frames, i, [At(av_frames, i) EXCEPT ![ff] = v])
    ELSE av_frames

\* The inner loop condition of line 122: a pull is started only when the
\* flag, read under the mutex, says that nothing is staged.
MayStage_Always(uploaded_frame) == TRUE

MayStage(uploaded_frame) == ~uploaded_frame

\* The pull results after which line 141 sets the flag: every result that
\* does not take the branch of line 135, EAGAIN included.
PublishOn(ret) == ~(ret = "error")

\* The outer loop (lines 117-119) is left when sink->ctx is NULL or
\* need_filters_reinit is set; the break of line 137 leaves the inner loop.
LeavesLoop_IgnoresFlag(ctx, reinit) == ctx = "null"

LeavesLoop(ctx, reinit) == ctx = "null" \/ reinit

\* while (sink->ctx) { if (need_filters_reinit) break;   (lines 117-119)
WTop(i) ==
    /\ i \in Workers /\ HasSink(i)
    /\ WPc(i) = "top"
    /\ IF LeavesLoop(At(buffer_sinks, i).ctx, need_filters_reinit)
       THEN SetW(i, "exit", WRet(i), WFrame(i))
       ELSE SetW(i, "lock", WRet(i), WFrame(i))
    /\ UNCHANGED <<graph_vars, main_vars, flag_vars, buffer_sinks, av_frames,
                   mutexes, sink_pts>>

\* mutex->lock();   (line 121)
WLock(i) ==
    /\ i \in Workers /\ HasSink(i)
    /\ WPc(i) = "lock"
    /\ At(mutexes, i) = "free"
    /\ mutexes' = SetAt(mutexes, i, "worker")
    /\ SetW(i, "check", WRet(i), WFrame(i))
    /\ UNCHANGED <<graph_vars, main_vars, flag_vars, buffer_sinks, av_frames,
                   sink_pts>>

\* mutex->unlock();   (lines 126, 143)
Unlock_Kept(mtx, i) == mtx

Unlock(mtx, i) == SetAt(mtx, i, "free")

\* while (!sink->uploaded_frame) { mutex->unlock(); av_frame_unref(a_frame);
\* filter_frame = sink->a_frame;                        (lines 122-129)
\* or, the flag being set: mutex->unlock(); if (paused) usleep(10000);
\*                                                      (lines 143-146)
WCheck(i) ==
    /\ i \in Workers /\ HasSink(i)
    /\ WPc(i) = "check"
    /\ At(mutexes, i) = "worker"
    /\ mutexes' = Unlock(mutexes, i)
    /\ LET sink == At(buffer_sinks, i) IN
       IF MayStage(sink.uploaded_frame)
       THEN /\ SetW(i, "pull", WRet(i), sink.a_frame)
            /\ av_frames' = WriteFrame(i, sink.a_frame, 0)
       ELSE /\ SetW(i, "top", WRet(i), WFrame(i))
            /\ UNCHANGED av_frames
    /\ UNCHANGED <<graph_vars, main_vars, flag_vars, buffer_sinks, sink_pts>>

\* ret = av_buffersink_get_frame_flags(sink->ctx, filter_frame, 0);
\* (lines 130-134): a frame, EAGAIN, or another error. The engine delivers
\* at most MaxFrames frames per sink.
WPull(i) ==
    /\ i \in Workers /\ HasSink(i)
    /\ WPc(i) = "pull"
    /\ \E ret \in {"ok", "eagain", "error"} :
          /\ ret = "ok" => At(sink_pts, i) < MaxFrames
          /\ SetW(i, "relock", ret, WFrame(i))
          /\ IF ret = "ok"
             THEN /\ sink_pts' = SetAt(sink_pts, i, At(sink_pts, i) + 1)
                  /\ av_frames' = WriteFrame(i, WFrame(i), At(sink_pts, i) + 1)
             ELSE UNCHANGED <<sink_pts, av_frames>>
    /\ UNCHANGED <<graph_vars, main_vars, flag_vars, buffer_sinks, mutexes>>

\* if (ret < 0 && ret != AVERROR(EAGAIN)) { mutex->lock(); break; }
\* mutex->lock(); sink->uploaded_frame = true;          (lines 135-141)
\* After the break: mutex->unlock(); if (paused) usleep(10000); (143-146)
\* filter_frame is a local of the loop body and ends with it.
WRelock(i) ==
    /\ i \in Workers /\ HasSink(i)
    /\ WPc(i) = "relock"
    /\ At(mutexes, i) = "free"
    /\ IF PublishOn(WRet(i))
       THEN /\ mutexes' = SetAt(mutexes, i, "worker")
            /\ buffer_sinks' = SetAt(buffer_sinks, i,
                                     [At(buffer_sinks, i) EXCEPT !.uploaded_frame = TRUE])
            /\ SetW(i, "check", WRet(i), NullFrame)
       ELSE /\ UNCHANGED <<mutexes, buffer_sinks>>
            /\ SetW(i, "top", WRet(i), NullFrame)
    /\ UNCHANGED <<graph_vars, main_vars, flag_vars, av_frames, sink_pts>>

\* mutex->lock(); av_freep(&sink->label); av_frame_free(&sink->a_frame);
\* av_frame_free(&sink->b_frame); glDeleteTextures(1, &sink->texture);
\* mutex->unlock();                                     (lines 149-156)
\* av_freep and av_frame_free leave NULL in the pointer they are given.
ReleaseSink_KeepsFrames(sink) == [sink EXCEPT !.label = FALSE, !.texture = FALSE]

ReleaseSink(sink) ==
    [sink EXCEPT !.a_frame = NullFrame, !.b_frame = NullFrame,
                 !.label = FALSE, !.texture = FALSE]

WExit(i) ==
    /\ i \in Workers /\ HasSink(i)
    /\ WPc(i) = "exit"
    /\ At(mutexes, i) = "free"
    /\ buffer_sinks' = SetAt(buffer_sinks, i, ReleaseSink(At(buffer_sinks, i)))
    /\ av_frames' = SetAt(av_frames, i, <<0, 0>>)
    /\ SetW(i, "done", "none", NullFrame)
    /\ UNCHANGED <<graph_vars, main_vars, flag_vars, mutexes, sink_pts>>

worker_thread(i) ==
    \/ WTop(i)
    \/ WLock(i)
    \/ WCheck(i)
    \/ WPull(i)
    \/ WRelock(i)
    \/ WExit(i)

\* ------------------------------------------------------------ filters_setup
\* for (i...) if (video_sink_threads[i].joinable()) video_sink_threads[i].join();
\* (lines 167-170, 1586-1589, 1645-1648): returns once every thread has
\* left worker_thread.
Joined_NoWait == TRUE

Joined == \A i \in Workers : WPc(i) = "done"

\* Where a rebuild fails for a reason of the engine's: nowhere ("none"), at
\* avfilter_graph_alloc, at a step of node i (lines 202-261), at avfilter_link
\* of link i, or at avfilter_graph_config.
NodeFailSteps ==
    {"alloc_filter", "pix_fmts", "serialize", "ctx_options", "filter_options", "init"}

FailPoints(nodes, links) ==
    {[at |-> a, i |-> 0] : a \in {"none", "graph_alloc", "config"}}
    \cup {[at |-> a, i |-> i] : a \in NodeFailSteps, i \in Idx(nodes)}
    \cup {[at |-> "link", i |-> i] : i \in Idx(links)}

\* What a read of edge2pad outside the vector may return.
GarbageEntries ==
    {[node |-> n, is_output |-> o, pad_index |-> 0] : n \in 0 .. MaxNodes, o \in {0, 1}}

\* Only a link whose slot lies outside edge2pad reads such a value.
GarbageFor(links, e2p) ==
    IF \A j \in Idx(links) : At(links, j)[1] \in Idx(e2p) /\ At(links, j)[2] \in Idx(e2p)
    THEN {[node |-> 0, is_output |-> 0, pad_index |-> 0]}
    ELSE GarbageEntries

\* avfilter_graph_free(&filter_graph): every context of the old graph is
\* freed, the handles the nodes keep to them dangle.
FreeGraphHandles_ForgetsKinds(nodes) ==
    [k \in 1 .. Len(nodes) |-> [nodes[k] EXCEPT !.filter = "NULL"]]

FreeGraphHandles(nodes) ==
    [k \in 1 .. Len(nodes) |->
        IF nodes[k].ctx = "live" THEN [nodes[k] EXCEPT !.ctx = "stale"] ELSE nodes[k]]

\* The node loop of lines 192-262 from node i on; nb is buffer_sinks.size().
RECURSIVE InstantiateNodes(_, _, _, _)
InstantiateNodes(nodes, i, nb, fail) ==
    IF i >= Len(nodes)
    THEN [ret |-> "ok", nodes |-> nodes, nb |-> nb]
    ELSE LET node == At(nodes, i)
             fails(step) == fail.at = step /\ fail.i = i
         IN  IF node.filter = "NULL" \/ fails("alloc_filter")
             THEN [ret |-> "err", nodes |-> nodes, nb |-> nb]
             ELSE IF IsBufferSink(node.filter) /\ fails("pix_fmts")
             THEN [ret |-> "err", nodes |-> nodes, nb |-> nb]
             ELSE LET nb2 == IF IsBufferSink(node.filter) THEN nb + 1 ELSE nb
                      nodes2 == SetAt(nodes, i, [node EXCEPT !.ctx = "live",
                                                             !.priv = OptDefault,
                                                             !.is_disabled = FALSE])
                  IN  IF \/ fails("serialize") \/ fails("ctx_options")
                         \/ fails("filter_options") \/ fails("init")
                      THEN [ret |-> "err", nodes |-> nodes2, nb |-> nb2]
                      ELSE InstantiateNodes(nodes2, i + 1, nb2, fail)

\* edge2pad[slot] as line 266-269 reads it.
ReadEdge(e2p, slot, garbage) ==
    IF slot \in Idx(e2p) THEN At(e2p, slot) ELSE garbage

\* avfilter_link(src, srcpad, dst, dstpad) on the links made so far: refused
\* for a pad that does not exist or is already linked, and for two pads of
\* different media types.
LinkRefused(nodes, made, x, x_pad, y, y_pad) ==
    \/ x_pad >= nb_outputs(At(nodes, x).filter)
    \/ y_pad >= nb_inputs(At(nodes, y).filter)
    \/ PadType(At(nodes, x).filter) # PadType(At(nodes, y).filter)
    \/ \E l \in made : (l.x = x /\ l.x_pad = x_pad) \/ (l.y = y /\ l.y_pad = y_pad)

\* The link loop of lines 264-286 from link j on; made is the set of links
\* the engine holds, indexed the indices at which the av_log call of lines
\* 275-276 reads filter_nodes (filter_nodes[x].filter_label and
\* filter_nodes[y].filter_label) when the test of line 274 fires.
RECURSIVE ConnectLinks(_, _, _, _, _, _, _)
ConnectLinks(nodes, links, e2p, j, made, fail, garbage) ==
    IF j >= Len(links)
    THEN [ret |-> "ok", made |-> made, indexed |-> {}]
    ELSE LET p == At(links, j)
             x == ReadEdge(e2p, p[1], garbage).node
             y == ReadEdge(e2p, p[2], garbage).node
             x_pad == ReadEdge(e2p, p[1], garbage).pad_index
             y_pad == ReadEdge(e2p, p[2], garbage).pad_index
         IN  IF x >= Len(nodes) \/ y >= Len(nodes)
             THEN [ret |-> "err", made |-> made, indexed |-> {x, y}]
             ELSE IF (fail.at = "link" /\ fail.i = j)
                     \/ LinkRefused(nodes, made, x, x_pad, y, y_pad)
             THEN [ret |-> "err", made |-> made, indexed |-> {}]
             ELSE ConnectLinks(nodes, links, e2p, j + 1,
                               made \cup {[x |-> x, x_pad |-> x_pad,
                                           y |-> y, y_pad |-> y_pad]},
                               fail, garbage)

\* avfilter_graph_config (line 288): refuses a graph with an unconnected pad
\* or a filter linked to itself.
ConfigRefused(nodes, made) ==
    \/ \E i \in Idx(nodes) :
          \/ \E k \in 0 .. (nb_inputs(At(nodes, i).filter) - 1) :
                ~\E l \in made : l.y = i /\ l.y_pad = k
          \/ \E k \in 0 .. (nb_outputs(At(nodes, i).filter) - 1) :
                ~\E l \in made : l.x = i /\ l.x_pad = k
    \/ \E l \in made : l.x = l.y

\* Lines 184-296 on the node and link collections. The result: ret, the
\* nodes with their handles, the number of sinks pushed, the graph handle,
\* how many buffersink nodes got an input connected, and the indices the
\* out-of-range message read filter_nodes at.
Rebuild(nodes0, links, e2p, fail, garbage) ==
    LET nodes == FreeGraphHandles(nodes0)
        out(ret, ns, nb, graph, made, indexed) ==
            [ret |-> ret, nodes |-> ns, nb |-> nb, graph |-> graph,
             indexed |-> indexed,
             linked_sinks |->
                 Cardinality({i \in Idx(ns) : /\ IsBufferSink(At(ns, i).filter)
                                              /\ \E l \in made : l.y = i})]
    IN  IF fail.at = "graph_alloc"
        THEN out("err", nodes, 0, "null", {}, {})
        ELSE LET inst == InstantiateNodes(nodes, 0, 0, fail) IN
             IF inst.ret = "err"
             THEN out("err", inst.nodes, inst.nb, "live", {}, {})
             ELSE LET conn == ConnectLinks(inst.nodes, links, e2p, 0, {}, fail, garbage) IN
                  IF conn.ret = "err"
                  THEN out("err", inst.nodes, inst.nb, "live", conn.made, conn.indexed)
                  ELSE IF fail.at = "config" \/ ConfigRefused(inst.nodes, conn.made)
                  THEN out("err", inst.nodes, inst.nb, "live", conn.made, {})
                  ELSE out("ok", inst.nodes, inst.nb, "live", conn.made, {})

\* A BufferSink as pushed at line 226, and as completed at lines 310-316.
PushedSink ==
    [ctx |-> "live", uploaded_frame |-> FALSE, a_frame |-> Uninit,
     b_frame |-> Uninit, label |-> FALSE, texture |-> FALSE]

StartedSink ==
    [ctx |-> "live", uploaded_frame |-> FALSE, a_frame |-> 1,
     b_frame |-> 2, label |-> TRUE, texture |-> TRUE]

NewThread == [pc |-> "top", ret |-> "none", filter_frame |-> NullFrame]

Fill(n, v) == [k \in 1 .. n |-> v]

\* std::vector<std::thread> thread_list(buffer_sinks.size()) and the loop
\* that starts worker_thread for sink i in video_sink_threads[i] (306-320).
StartThreads_None(nb) == <<>>

StartThreads(nb) == Fill(nb, NewThread)

\* The render loop of lines 1604-1623 is entered at sink 0, or skipped.
EnterRender(sinks, mtx) ==
    IF Len(mtx) = Len(sinks) /\ Len(sinks) > 0
    THEN /\ mpc' = "pick"
         /\ sink_i' = 0
    ELSE /\ mpc' = "editor"
         /\ sink_i' = 0

\* error: if (ret < 0) return ret;  (lines 298-301): what follows is
\* reached only by a rebuild in which no step failed.
Succeeded_Always(ret) == TRUE

Succeeded(ret) == ret = "ok"

\* filter_nodes[x].filter_label with x >= filter_nodes.size() (line 276): the
\* read is undefined.
ReadsOutside(nodes, indexed) == \E n \in indexed : n >= Len(nodes)

\* What the message of lines 275-276 does: it prints what it finds and the
\* rebuild returns EINVAL, or, reading outside filter_nodes, the process may
\* die in it.
LogOutcomes(nodes, indexed) ==
    IF ReadsOutside(nodes, indexed) THEN {"keep", "crash"} ELSE {"keep"}

\* if (need_filters_reinit == 0) return 0;  (lines 164-165)
Pending_Always(reinit) == TRUE

Pending(reinit) == reinit

\* filters_setup(), called at line 1597.
filters_setup ==
    /\ mpc = "setup"
    /\ UNCHANGED <<ui_event, sent, option_vars, selection>>
    /\ stepped' = IF Pending(need_filters_reinit) THEN {} ELSE stepped
    /\ need_filters_reinit => Joined
    /\ UNCHANGED <<filter_links, edge2pad, edge2type, framestep, paused,
                   render_frame, picked, drawn>>
    /\ IF ~Pending(need_filters_reinit)
       THEN /\ setup_ret' = [ret |-> "skipped", linked_sinks |-> 0, indexed |-> {}]
            /\ EnterRender(buffer_sinks, mutexes)
            /\ UNCHANGED <<filter_nodes, filter_graph, graphdump_text,
                           buffer_sinks, av_frames, mutexes, video_sink_threads,
                           need_filters_reinit, show_buffersink_window,
                           sink_pts, shown>>
       ELSE IF Len(filter_nodes) = 0
       THEN /\ video_sink_threads' = <<>>
            /\ need_filters_reinit' = FALSE
            /\ setup_ret' = [ret |-> "empty", linked_sinks |-> 0, indexed |-> {}]
            /\ EnterRender(buffer_sinks, mutexes)
            /\ UNCHANGED <<filter_nodes, filter_graph, graphdump_text,
                           buffer_sinks, av_frames, mutexes,
                           show_buffersink_window, sink_pts, shown>>
       ELSE \E fail \in FailPoints(filter_nodes, filter_links),
               garbage \in GarbageFor(filter_links, edge2pad) :
            LET r == Rebuild(filter_nodes, filter_links, edge2pad, fail, garbage) IN
            \E ub \in LogOutcomes(filter_nodes, r.indexed) :
            IF ub = "crash"
            THEN /\ mpc' = "crashed"
                 /\ setup_ret' = [ret |-> "crashed", linked_sinks |-> 0,
                                  indexed |-> r.indexed]
                 /\ UNCHANGED <<filter_nodes, filter_graph, graphdump_text,
                                buffer_sinks, av_frames, mutexes,
                                video_sink_threads, need_filters_reinit,
                                show_buffersink_window, sink_pts, shown, sink_i>>
            ELSE
            /\ need_filters_reinit' = FALSE
            /\ filter_nodes' = r.nodes
            /\ filter_graph' = r.graph
            /\ setup_ret' = [ret |-> r.ret, linked_sinks |-> r.linked_sinks,
                             indexed |-> r.indexed]
            /\ av_frames' = Fill(r.nb, <<0, 0>>)
            /\ sink_pts' = Fill(r.nb, 0)
            /\ shown' = Fill(r.nb, NotShown)
            /\ IF Succeeded(r.ret)
               THEN /\ graphdump_text' = "text"
                    /\ show_buffersink_window' = TRUE
                    /\ buffer_sinks' = Fill(r.nb, StartedSink)
                    /\ mutexes' = Fill(r.nb, "free")
                    /\ video_sink_threads' = StartThreads(r.nb)
                    /\ EnterRender(Fill(r.nb, StartedSink), Fill(r.nb, "free"))
               ELSE /\ graphdump_text' = "null"
                    /\ buffer_sinks' = Fill(r.nb, PushedSink)
                    /\ mutexes' = <<>>
                    /\ video_sink_threads' = <<>>
                    /\ EnterRender(Fill(r.nb, PushedSink), <<>>)
                    /\ UNCHANGED show_buffersink_window

\* ------------------------------------------------------------------- main
\* The top of the main loop (lines 1574-1595): the window is closed, or the
\* outputs are hidden while threads exist, or neither.
Poll ==
    /\ mpc = "poll"
    /\ \E close \in BOOLEAN :
          IF close
          THEN /\ need_filters_reinit' = TRUE
               /\ mpc' = "shutdown"
          ELSE IF ~show_buffersink_window /\ Len(video_sink_threads) > 0
          THEN /\ need_filters_reinit' = TRUE
               /\ mpc' = "drain"
          ELSE /\ mpc' = "setup"
               /\ UNCHANGED need_filters_reinit
    /\ Event("none")
    /\ UNCHANGED <<stepped, graph_vars, buffer_sinks, av_frames, mutexes,
                   video_sink_threads, framestep, paused,
                   show_buffersink_window, sink_pts, sink_i, render_frame,
                   picked, drawn, shown>>

\* Lines 1586-1593: join, clear, need_filters_reinit = false. No thread
\* pulls from the old sinks any more: their frame counts are dropped.
DrainOnly ==
    /\ mpc = "drain"
    /\ UNCHANGED <<ui_event, sent, option_vars, selection, stepped>>
    /\ Joined
    /\ video_sink_threads' = <<>>
    /\ need_filters_reinit' = FALSE
    /\ mpc' = "setup"
    /\ sink_pts' = Fill(Len(sink_pts), 0)
    /\ shown' = Fill(Len(shown), NotShown)
    /\ UNCHANGED <<graph_vars, buffer_sinks, av_frames, mutexes, framestep,
                   paused, show_buffersink_window, sink_i, render_frame,
                   picked, drawn>>

\* Lines 1644-1669: join, then free the nodes, the dump, the graph, the links.
Shutdown ==
    /\ mpc = "shutdown"
    /\ UNCHANGED <<ui_event, sent, option_vars, selection, stepped>>
    /\ Joined
    /\ video_sink_threads' = <<>>
    /\ filter_nodes' = <<>>
    /\ graphdump_text' = "null"
    /\ filter_graph' = "null"
    /\ filter_links' = <<>>
    /\ mpc' = "closed"
    /\ sink_pts' = Fill(Len(sink_pts), 0)
    /\ shown' = Fill(Len(shown), NotShown)
    /\ UNCHANGED <<edge2pad, edge2type, setup_ret, buffer_sinks, av_frames,
                   mutexes, flag_vars, sink_i, render_frame, picked, drawn>>

\* render_frame = sink->uploaded_frame == false ? sink->b_frame : sink->a_frame;
PickFrame(sink) == IF sink.uploaded_frame = FALSE THEN sink.b_frame ELSE sink.a_frame

\* if (sink->uploaded_frame == true && (!paused || framestep))
SwapWhen_IgnorePause(uploaded_frame, is_paused, step) == uploaded_frame = TRUE

SwapWhen(uploaded_frame, is_paused, step) ==
    uploaded_frame = TRUE /\ (~is_paused \/ step)

FrameContent(i, ff) == IF ff \in {1, 2} THEN At(av_frames, i)[ff] ELSE 0

\* mutexes[i].lock(); render_frame = ...; mutexes[i].unlock(); (1609-1611)
RenderPick ==
    /\ mpc = "pick"
    /\ UNCHANGED <<ui_event, sent, option_vars, selection, stepped>>
    /\ At(mutexes, sink_i) = "free"
    /\ LET sink == At(buffer_sinks, sink_i) IN
       /\ render_frame' = PickFrame(sink)
       /\ picked' = [staged |-> sink.uploaded_frame,
                     pts |-> FrameContent(sink_i, PickFrame(sink))]
    /\ mpc' = "draw"
    /\ drawn' = NullFrame
    /\ UNCHANGED <<graph_vars, buffer_sinks, av_frames, mutexes,
                   video_sink_threads, flag_vars, sink_pts, sink_i, shown>>

\* The keys draw_frame reads when its window is focused (lines 422-434).
Keys == {"unfocused", "none", "space", "period", "shift_q"}

\* draw_frame(&sink->texture, &show_buffersink_window, render_frame, sink);
\* (line 1612, lines 377-476): returns at once for a hidden window or a NULL
\* frame, else uploads the frame with load_frame and handles the keys.
RenderDraw ==
    /\ mpc = "draw"
    /\ UNCHANGED <<ui_event, sent, option_vars, selection>>
    /\ mpc' = "swap"
    /\ IF ~show_buffersink_window \/ render_frame = NullFrame
       THEN UNCHANGED <<framestep, paused, show_buffersink_window, drawn, shown,
                        stepped>>
       ELSE \E key \in Keys :
            LET paused1 == IF key = "space" THEN ~paused ELSE paused
                framestep2 == IF key = "unfocused" THEN framestep ELSE key = "period"
                paused2 == IF key # "unfocused" /\ framestep2 THEN TRUE ELSE paused1
                is_quiet == paused2 /\ ~framestep2
            IN  /\ paused' = paused2
                /\ framestep' = framestep2
                /\ stepped' = IF key = "unfocused" THEN stepped ELSE {}
                /\ show_buffersink_window' =
                       IF key = "shift_q" THEN FALSE ELSE show_buffersink_window
                /\ drawn' = render_frame
                /\ shown' = [k \in 1 .. Len(shown) |->
                               IF ~is_quiet THEN NotShown
                               ELSE IF k = sink_i + 1
                               THEN [pts |-> FrameContent(sink_i, render_frame),
                                     quiet |-> TRUE,
                                     staged |-> picked.staged]
                               ELSE shown[k]]
    /\ picked' = NoPick
    /\ UNCHANGED <<graph_vars, buffer_sinks, av_frames, mutexes,
                   video_sink_threads, need_filters_reinit, sink_pts, sink_i,
                   render_frame>>

\* mutexes[i].lock(); if (...) { swap a_frame and b_frame;
\* uploaded_frame = false; } mutexes[i].unlock();  (lines 1613-1621), then
\* the next sink or the windows after the loop.
RenderSwap ==
    /\ mpc = "swap"
    /\ UNCHANGED <<ui_event, sent, option_vars, selection>>
    /\ At(mutexes, sink_i) = "free"
    /\ LET sink == At(buffer_sinks, sink_i) IN
       IF SwapWhen(sink.uploaded_frame, paused, framestep)
       THEN /\ buffer_sinks' =
                   SetAt(buffer_sinks, sink_i,
                         [sink EXCEPT !.a_frame = sink.b_frame,
                                      !.b_frame = sink.a_frame,
                                      !.uploaded_frame = FALSE])
            /\ stepped' = IF paused THEN stepped \cup {sink_i} ELSE stepped
       ELSE UNCHANGED <<buffer_sinks, stepped>>
    /\ IF sink_i + 1 < Len(buffer_sinks)
       THEN /\ sink_i' = sink_i + 1
            /\ mpc' = "pick"
       ELSE /\ sink_i' = 0
            /\ mpc' = "editor"
    /\ render_frame' = NullFrame
    /\ drawn' = NullFrame
    /\ UNCHANGED <<graph_vars, av_frames, mutexes, video_sink_threads,
                   flag_vars, sink_pts, picked, shown>>

\* -------------------------------------------------- show_filtergraph_editor
\* handle_nodeitem (lines 611-629): the node a menu pick appends.
NewNode(kind, nodes) ==
    [id |-> Len(nodes), filter |-> kind, ctx |-> "null", probe |-> FALSE,
     named |-> TRUE, opt_storage |-> <<>>, priv |-> OptDefault,
     is_disabled |-> FALSE]

\* draw_node_options (lines 645-655) gives every node it draws a probe.
WithProbe(node) == [node EXCEPT !.probe = TRUE]

\* The slots one pass of the node loop (lines 1071-1129) pushes for the pads
\* of the node at index i: inputs, then outputs.
PadEdges(i, node) ==
    [j \in 1 .. nb_inputs(node.filter) |->
        [node |-> i, is_output |-> 0, pad_index |-> j - 1,
         type |-> PadType(node.filter)]]
    \o [j \in 1 .. nb_outputs(node.filter) |->
        [node |-> i, is_output |-> 1, pad_index |-> j - 1,
         type |-> PadType(node.filter)]]

NodeEdge(i) == [node |-> i, is_output |-> 0, pad_index |-> 0, type |-> "unknown"]

\* The slots of the nodes i .. j-1, in the order of the loop.
RECURSIVE EdgesOf(_, _, _)
EdgesOf(nodes, i, j) ==
    IF i >= j \/ i >= Len(nodes)
    THEN <<>>
    ELSE <<NodeEdge(i)>> \o PadEdges(i, At(nodes, i)) \o EdgesOf(nodes, i + 1, j)

ToPad(edges) ==
    [k \in 1 .. Len(edges) |->
        [node |-> edges[k].node, is_output |-> edges[k].is_output,
         pad_index |-> edges[k].pad_index]]

ToType(edges) == [k \in 1 .. Len(edges) |-> edges[k].type]

EraseAt(s, i) == SubSeq(s, 1, i) \o SubSeq(s, i + 2, Len(s))

\* v.erase(v.begin() + i) with i >= v.size(): undefined; the vector is left
\* as it is or loses its last element (or the process dies, see ub = "crash").
EraseOutside(s, ub) ==
    IF ub = "drop" /\ Len(s) > 0 THEN SubSeq(s, 1, Len(s) - 1) ELSE s

UBOutcomes == {"keep", "drop", "crash"}

\* for (i...) if (video_sink_threads[i].joinable()) return;  (lines 669-672,
\* 1139-1144): every element of the vector is a started, unjoined thread.
AnyJoinable_Never(threads) == FALSE

AnyJoinable(threads) == Len(threads) > 0

\* A node whose name was freed makes the title bar of line 1082 read NULL;
\* a dangling ctx is read at lines 1092-1094.
EditorFaults(nodes) == \E i \in Idx(nodes) : ~At(nodes, i).named

EditorReadsStale(nodes) == \E i \in Idx(nodes) : At(nodes, i).ctx = "stale"

\* The tail of every pass: the slot tables of this frame, back to the top of
\* the main loop.
EndEditor(nodes, edges) ==
    /\ filter_nodes' = nodes
    /\ edge2pad' = ToPad(edges)
    /\ edge2type' = ToType(edges)
    /\ mpc' = "poll"

AllProbed(nodes) == [k \in 1 .. Len(nodes) |-> WithProbe(nodes[k])]

\* What no pass of the editor changes.
editor_frame == <<stepped, filter_graph, graphdump_text, setup_ret, buffer_sinks,
                  av_frames, mutexes, video_sink_threads, framestep, paused,
                  show_buffersink_window, sink_pts, sink_i, render_frame,
                  picked, drawn, shown>>

EditorReady == mpc = "editor" /\ ~EditorFaults(filter_nodes)

\* A pass in which the user does nothing.
EditorIdle ==
    /\ EditorReady
    /\ Event("idle")
    /\ EndEditor(AllProbed(filter_nodes), EdgesOf(filter_nodes, 0, Len(filter_nodes)))
    /\ UNCHANGED <<filter_links, need_filters_reinit, editor_frame>>

\* A widget of the "Options" list of a node is edited (draw_node_options,
\* lines 690-921): av_opt_set* on the private data of the node's probe. The
\* values of options are not part of this model's state.
EditOption ==
    /\ EditorReady
    /\ Event("edit_option")
    /\ Len(filter_nodes) > 0
    /\ EndEditor(AllProbed(filter_nodes), EdgesOf(filter_nodes, 0, Len(filter_nodes)))
    /\ UNCHANGED <<filter_links, need_filters_reinit, editor_frame>>

\* Ctrl+Enter (lines 942-943).
CommitGraph ==
    /\ EditorReady
    /\ Event("commit")
    /\ need_filters_reinit' = TRUE
    /\ EndEditor(AllProbed(filter_nodes), EdgesOf(filter_nodes, 0, Len(filter_nodes)))
    /\ UNCHANGED <<filter_links, editor_frame>>

\* A pick in the "Add Filter" popup (lines 953-1068, handle_nodeitem), of
\* one of the kinds listed, while fewer than max nodes exist.
AddNode(kinds, max) ==
    /\ EditorReady
    /\ Event("add_filter")
    /\ Len(filter_nodes) < max
    /\ \E kind \in kinds :
          LET nodes == Append(filter_nodes, NewNode(kind, filter_nodes)) IN
          EndEditor(AllProbed(nodes), EdgesOf(nodes, 0, Len(nodes)))
    /\ UNCHANGED <<filter_links, need_filters_reinit, editor_frame>>

AddFilter == AddNode(FilterKinds, MaxNodes)

\* The process dies in the editor: a freed name or a dangling handle is read.
EditorCrash ==
    /\ mpc = "editor"
    /\ UNCHANGED <<ui_event, sent, option_vars, selection>>
    /\ EditorFaults(filter_nodes) \/ EditorReadsStale(filter_nodes)
    /\ mpc' = "crashed"
    /\ UNCHANGED <<filter_nodes, filter_links, edge2pad, edge2type,
                   need_filters_reinit, editor_frame>>

\* The process dies in a pass of the editor.
Crash ==
    /\ mpc' = "crashed"
    /\ UNCHANGED <<filter_nodes, filter_links, edge2pad, edge2type>>

\* The "Remove" button of the node drawn at index i (lines 668-688): the
\* node's strings and handles are freed, then filter_nodes.erase(begin() +
\* node->id). The loop of line 1071 goes on with whatever stands at index i.
RemoveNode ==
    /\ EditorReady
    /\ Event("remove")
    /\ UNCHANGED <<filter_links, need_filters_reinit, editor_frame>>
    /\ \E i \in Idx(filter_nodes) :
       \E ub \in IF /\ ~AnyJoinable(video_sink_threads)
                    /\ \/ At(filter_nodes, i).id >= Len(filter_nodes)
                       \/ At(filter_nodes, i).ctx = "stale"
                 THEN UBOutcomes ELSE {"keep"} :
          IF AnyJoinable(video_sink_threads)
          THEN EndEditor(AllProbed(filter_nodes),
                         EdgesOf(filter_nodes, 0, Len(filter_nodes)))
          ELSE LET node == At(filter_nodes, i)
                   freed == [node EXCEPT !.named = FALSE, !.probe = FALSE,
                                         !.ctx = "null"]
                   nodes1 == SetAt(AllProbed(filter_nodes), i, freed)
                   outside == node.id >= Len(nodes1)
                   nodes2 == IF outside THEN EraseOutside(nodes1, ub)
                             ELSE EraseAt(nodes1, node.id)
                   edges == EdgesOf(filter_nodes, 0, i)
                            \o <<NodeEdge(i)>>
                            \o (IF i < Len(nodes2) /\ At(nodes2, i).probe
                                THEN PadEdges(i, At(nodes2, i)) ELSE <<>>)
                            \o EdgesOf(nodes2, i + 1, Len(nodes2))
               IN  IF ub = "crash" /\ (outside \/ node.ctx = "stale")
                   THEN Crash
                   ELSE EndEditor(nodes2, edges)

\* The pins ImNodes lets the user connect: an output pin and an input pin of
\* two different nodes, not linked to each other yet.
OutputPins(edges) ==
    {s \in Idx(edges) : At(edges, s).type # "unknown" /\ At(edges, s).is_output = 1}

InputPins(edges) ==
    {s \in Idx(edges) : At(edges, s).type # "unknown" /\ At(edges, s).is_output = 0}

\* if (first == second) of line 1151.
SameType_Any(first, second) == TRUE

SameType(first, second) == first = second

\* ImNodes::IsLinkCreated (lines 1146-1153); the collection grows to
\* MaxLinks links at most.
CreateLink(max) ==
    /\ EditorReady
    /\ Event("link_created")
    /\ LET edges == EdgesOf(filter_nodes, 0, Len(filter_nodes)) IN
       /\ EndEditor(AllProbed(filter_nodes), edges)
       /\ \E start_attr \in OutputPins(edges), end_attr \in InputPins(edges) :
             LET pushed == /\ ~AnyJoinable(video_sink_threads)
                           /\ SameType(At(ToType(edges), start_attr),
                                       At(ToType(edges), end_attr))
             IN  /\ At(edges, start_attr).node # At(edges, end_attr).node
                 /\ \A l \in Idx(filter_links) :
                       At(filter_links, l) # <<start_attr, end_attr>>
                 /\ pushed => Len(filter_links) < max
                 /\ filter_links' =
                        IF pushed THEN Append(filter_links, <<start_attr, end_attr>>)
                        ELSE filter_links
    /\ UNCHANGED <<need_filters_reinit, editor_frame>>

LinkCreated == CreateLink(MaxLinks)

\* ImNodes::IsLinkDestroyed (lines 1155-1157).
LinkDestroyed ==
    /\ EditorReady
    /\ Event("link_destroyed")
    /\ EndEditor(AllProbed(filter_nodes), EdgesOf(filter_nodes, 0, Len(filter_nodes)))
    /\ \E link_id \in Idx(filter_links) :
          filter_links' = IF AnyJoinable(video_sink_threads) THEN filter_links
                          ELSE EraseAt(filter_links, link_id)
    /\ UNCHANGED <<need_filters_reinit, editor_frame>>

\* The orders in which ImNodes may hand over a selection S.
Orders(S) ==
    UNION {{f \in [1 .. k -> S] : \A a, b \in 1 .. k : a # b => f[a] # f[b]} :
           k \in 0 .. Cardinality(S)}

\* The loop of lines 1166-1170 from the k-th selected link on.
RECURSIVE EraseSelectedLinks(_, _, _, _)
EraseSelectedLinks(links, selected_links, k, ub) ==
    IF k > Len(selected_links) \/ Len(links) = 0
    THEN [links |-> links, crashed |-> FALSE]
    ELSE IF selected_links[k] < Len(links)
    THEN EraseSelectedLinks(EraseAt(links, selected_links[k]), selected_links, k + 1, ub)
    ELSE IF ub = "crash"
    THEN [links |-> links, crashed |-> TRUE]
    ELSE EraseSelectedLinks(EraseOutside(links, ub), selected_links, k + 1, ub)

\* Lines 1195-1201: every node whose filter was set to NULL is erased.
RECURSIVE EraseMarked(_, _)
EraseMarked(nodes, marked) ==
    IF Len(nodes) = 0
    THEN <<>>
    ELSE LET rest == EraseMarked(SubSeq(nodes, 1, Len(nodes) - 1), marked) IN
         IF (Len(nodes) - 1) \in marked THEN rest
         ELSE Append(rest, nodes[Len(nodes)])

\* The X key with links and/or nodes selected (lines 1159-1201).
DeleteSelected ==
    /\ EditorReady
    /\ ui_event' = "delete_selected"
    /\ sent' = NoCommand
    /\ UNCHANGED <<option_vars, need_filters_reinit, editor_frame>>
    /\ LET edges == EdgesOf(filter_nodes, 0, Len(filter_nodes))
           node_slots == {s \in Idx(edges) : At(edges, s).type = "unknown"}
       IN  \E selected_links \in Orders(Idx(filter_links)),
              selected_nodes \in SUBSET node_slots :
           \E ub \in IF /\ ~AnyJoinable(video_sink_threads)
                        /\ \/ EraseSelectedLinks(filter_links, selected_links,
                                                 1, "crash").crashed
                           \/ \E s \in selected_nodes :
                                 At(filter_nodes, At(edges, s).node).ctx = "stale"
                     THEN UBOutcomes ELSE {"keep"} :
           /\ Len(selected_links) > 0 \/ selected_nodes # {}
           /\ selection' = selected_links
           /\ IF AnyJoinable(video_sink_threads)
              THEN /\ EndEditor(AllProbed(filter_nodes), edges)
                   /\ UNCHANGED filter_links
              ELSE LET erased == EraseSelectedLinks(filter_links, selected_links, 1, ub)
                       marked == {At(edges, s).node : s \in selected_nodes}
                       frees_stale == \E n \in marked : At(filter_nodes, n).ctx = "stale"
                   IN  IF erased.crashed \/ (ub = "crash" /\ frees_stale)
                       THEN Crash
                       ELSE /\ filter_links' = erased.links
                            /\ EndEditor(EraseMarked(AllProbed(filter_nodes), marked), edges)

show_filtergraph_editor ==
    \/ EditorIdle
    \/ CommitGraph
    \/ EditOption
    \/ AddFilter
    \/ RemoveNode
    \/ LinkCreated
    \/ LinkDestroyed
    \/ DeleteSelected
    \/ EditorCrash

\* ------------------------------------------------------------ specification
Next ==
    \/ Poll
    \/ DrainOnly
    \/ Shutdown
    \/ filters_setup
    \/ RenderPick
    \/ RenderDraw
    \/ RenderSwap
    \/ show_filtergraph_editor
    \/ \E i \in 0 .. (MaxNodes - 1) : worker_thread(i)

Spec == Init /\ [][Next]_vars

\* The threads under fair scheduling: every worker that can take a step
\* eventually takes one (a lock is granted, a pull returns). The sessions
\* are those in which the user adds nodes, links them and commits.
NextLive ==
    \/ Poll
    \/ DrainOnly
    \/ Shutdown
    \/ filters_setup
    \/ RenderPick
    \/ RenderDraw
    \/ RenderSwap
    \/ EditorIdle
    \/ CommitGraph
    \/ AddFilter
    \/ LinkCreated
    \/ \E i \in 0 .. (MaxNodes - 1) : worker_thread(i)

SpecLive ==
    /\ Init /\ [][NextLive]_vars
    /\ \A i \in 0 .. (MaxNodes - 1) : WF_vars(worker_thread(i))

\* ------------------------------------------------------------ show_commands
\* show_commands (line 1626) runs in every frame before the editor does.
\* The guard of lines 1211-1214.
CommandsShown ==
    /\ filter_graph # "null"
    /\ Len(buffer_sinks) = Len(mutexes)
    /\ Len(buffer_sinks) > 0

\* The nodes whose "Commands" tree can be opened (lines 1224-1254).
Commandable(nodes) ==
    {n \in Idx(nodes) : /\ At(nodes, n).ctx = "live"
                        /\ process_command(At(nodes, n).filter)}

\* ctx->name: the label handle_nodeitem built, "%s%d" of the kind and the
\* id (line 619), given to avfilter_graph_alloc_filter at line 202.
Label(node) == <<node.filter, node.id>>

\* opt_index of the int option of a kind: the number of enumerated options
\* before it, cached or not (opt_index++ of line 1466 is outside the
\* switch).
RECURSIVE OptIndexFrom(_, _)
OptIndexFrom(opts, i) ==
    IF i >= Len(opts) \/ At(opts, i) = "int" THEN i ELSE OptIndexFrom(opts, i + 1)

OptIndex(kind) == OptIndexFrom(RuntimeOptions(kind), 0)

\* An OptStorage pushed while the loop stood at the option of index k.
Entry(k, v) == [for |-> k, v |-> v]

\* opt_storage[opt_index] read; outside the vector the read is undefined
\* and yields whatever lies behind the buffer.
ReadCache(opt_storage, opt_index, garbage) ==
    IF opt_index < Len(opt_storage) THEN At(opt_storage, opt_index).v ELSE garbage

\* snprintf(arg, ..., "%d", opt_storage[opt_index].u.i32) (line 1294): the
\* decimal text of an int is that int again when the engine parses it.
CommandArg(opt_storage, opt_index, garbage) ==
    ReadCache(opt_storage, opt_index, garbage)

\* if (opt_storage.size() <= opt_index) opt_storage.push_back(new_opt);
\* (lines 1349-1354): the entry is appended, wherever opt_index points.
FillCache(opt_storage, opt_index, v) ==
    IF Len(opt_storage) <= opt_index
    THEN Append(opt_storage, Entry(opt_index, v))
    ELSE opt_storage

\* opt_storage[opt_index].u.i32 = value (line 1357); outside the vector the
\* write is undefined: it misses the elements of the vector, or the
\* process dies.
WriteCache(opt_storage, opt_index, v) ==
    IF opt_index < Len(opt_storage)
    THEN SetAt(opt_storage, opt_index, [At(opt_storage, opt_index) EXCEPT !.v = v])
    ELSE opt_storage

\* avfilter_graph_send_command(filter_graph, target, cmd, arg, NULL, 0, 0):
\* every filter of the graph whose instance name is the target processes
\* the command and takes the value.
send_command(nodes, target, arg) ==
    [k \in 1 .. Len(nodes) |->
        IF nodes[k].ctx = "live" /\ Label(nodes[k]) = target
        THEN [nodes[k] EXCEPT !.priv = arg] ELSE nodes[k]]

NoEdit == -1

\* The option loop of lines 1262-1468 for the open tree of node n, at the
\* int option of its kind: the "Send" button (1288-1317) on the copy of
\* the cache, the entry pushed (1349-1354), the widget (1356-1365), and the
\* copy stored back (1470). Then the editor, with nothing done.
CommandsPass(n, send, edit, garbage, ub) ==
    LET node == At(filter_nodes, n)
        opt_index == OptIndex(node.filter)
        sent_now == IF send
                    THEN [node |-> n, cmd |-> "int", target |-> Label(node),
                          arg |-> CommandArg(node.opt_storage, opt_index, garbage)]
                    ELSE NoCommand
        nodes1 == IF send
                  THEN send_command(filter_nodes, sent_now.target, sent_now.arg)
                  ELSE filter_nodes
        filled == FillCache(node.opt_storage, opt_index, At(nodes1, n).priv)
        edited == IF edit # NoEdit THEN WriteCache(filled, opt_index, edit)
                  ELSE filled
        nodes2 == SetAt(nodes1, n, [At(nodes1, n) EXCEPT !.opt_storage = edited])
    IN  /\ EditorReady
        /\ CommandsShown
        /\ n \in Commandable(filter_nodes)
        /\ sent' = sent_now
        /\ selection' = <<>>
        /\ IF edit # NoEdit /\ opt_index >= Len(filled) /\ ub = "crash"
           THEN Crash
           ELSE EndEditor(AllProbed(nodes2), EdgesOf(nodes2, 0, Len(nodes2)))
        /\ UNCHANGED <<filter_links, need_filters_reinit, editor_frame,
                       option_vars>>

\* The tree of a node is open and the user touches nothing in it.
ShowCommands ==
    \E n \in Idx(filter_nodes) :
       /\ ui_event' = "commands_shown"
       /\ CommandsPass(n, FALSE, NoEdit, OptDefault, "keep")

\* The slider of the option is moved to v.
EditCommand ==
    \E n \in Idx(filter_nodes), v \in OptValues, ub \in {"keep", "crash"} :
       /\ ui_event' = "command_edit"
       /\ CommandsPass(n, FALSE, v, OptDefault, ub)

\* "Send" is clicked. ImGui reports a click on a button only when the
\* button was drawn in an earlier frame, so the row of the option was
\* drawn before and the cache of the node is not empty.
SendCommand ==
    \E n \in Idx(filter_nodes), garbage \in OptValues :
       /\ ui_event' = "command_send"
       /\ Len(At(filter_nodes, n).opt_storage) > 0
       /\ CommandsPass(n, TRUE, NoEdit, garbage, "keep")

\* const int flag = !filter_ctx->is_disabled; ... flag ? "0" : "1"
\* (lines 1493-1495); the texts "0" and "1" are the numbers 0 and 1 here.
EnableArg_Complement(is_disabled) == IF is_disabled THEN 0 ELSE 1

EnableArg(is_disabled) == IF ~is_disabled THEN 0 ELSE 1

\* avfilter_graph_send_command(filter_graph, target, "enable", arg, ...):
\* every context of that name evaluates the expression arg from then on
\* and passes its input through while the result is 0.
send_enable(nodes, target, arg) ==
    [k \in 1 .. Len(nodes) |->
        IF nodes[k].ctx = "live" /\ Label(nodes[k]) = target
           /\ supports_timeline(nodes[k].filter)
        THEN [nodes[k] EXCEPT !.is_disabled = (arg = 0)] ELSE nodes[k]]

\* The button of the "Timeline" tree of node n is clicked (lines 1476-1483)
\* and the command goes out after the list (lines 1491-1497).
ToggleTimeline ==
    \E n \in Idx(filter_nodes) :
       LET node == At(filter_nodes, n)
           arg == EnableArg(node.is_disabled)
           nodes == send_enable(filter_nodes, Label(node), arg)
       IN  /\ EditorReady
           /\ CommandsShown
           /\ node.ctx = "live"
           /\ supports_timeline(node.filter)
           /\ ui_event' = "timeline_toggle"
           /\ selection' = <<>>
           /\ sent' = [node |-> n, cmd |-> "enable", target |-> Label(node),
                       arg |-> arg]
           /\ EndEditor(AllProbed(nodes), EdgesOf(nodes, 0, Len(nodes)))
           /\ UNCHANGED <<filter_links, need_filters_reinit, editor_frame,
                          option_vars>>

show_commands ==
    \/ ShowCommands
    \/ EditCommand
    \/ SendCommand
    \/ ToggleTimeline

\* ------------------------------------------------- the windows on their own
\* The kinds of Spec take no commands; the commands pane is part of SpecUI.
\* The windows on their own: the sessions in which every rebuild succeeds,
\* nothing is played (the system stays paused, no single step), the output
\* windows stay open, no worker is scheduled before it is asked to leave,
\* and the process does not die of an erase outside a vector. The editor and the commands pane read of
\* the workers only whether video_sink_threads holds any.
UIScope ==
    /\ mpc # "crashed"
    /\ setup_ret.ret # "err"
    /\ paused /\ ~framestep
    /\ show_buffersink_window
    /\ \A i \in Workers : WPc(i) \in {"top", "exit", "done"}
    /\ ~EditorFaults(filter_nodes)

UIPoll == Poll /\ UIScope'

UIShutdown == Shutdown /\ UIScope'

UISetup == filters_setup /\ UIScope'

UIRenderPick == RenderPick /\ UIScope'

UIRenderDraw == RenderDraw /\ UIScope'

UIRenderSwap == RenderSwap /\ UIScope'

UIWorkerLeaves(i) == (WTop(i) \/ WExit(i)) /\ UIScope'

UIEditorIdle == EditorIdle /\ UIScope'

UICommitGraph == CommitGraph /\ UIScope'

UIEditOption == EditOption /\ UIScope'

UIAddNode == AddNode(EditorKinds, MaxEditorNodes) /\ UIScope'

UIRemoveNode == RemoveNode /\ UIScope'

UILinkCreated == LinkCreated /\ UIScope'

UILinkDestroyed == LinkDestroyed /\ UIScope'

UIDeleteSelected == DeleteSelected /\ UIScope'

UIShowCommands == ShowCommands /\ UIScope'

UIEditCommand == EditCommand /\ UIScope'

UISendCommand == SendCommand /\ UIScope'

NextUI ==
    \/ UIPoll
    \/ UIShutdown
    \/ UISetup
    \/ UIRenderPick
    \/ UIRenderDraw
    \/ UIRenderSwap
    \/ \E i \in 0 .. (MaxEditorNodes - 1) : UIWorkerLeaves(i)
    \/ UIEditorIdle
    \/ UICommitGraph
    \/ UIEditOption
    \/ UIAddNode
    \/ UIRemoveNode
    \/ UILinkCreated
    \/ UILinkDestroyed
    \/ UIDeleteSelected
    \/ UIShowCommands
    \/ UIEditCommand
    \/ UISendCommand

SpecUI == Init /\ [][NextUI]_vars

\* The timeline toggle: the same sessions, in which the user places nodes
\* of TimelineKinds, links them, commits and clicks the toggle.
MaxTimelineLinks == 2

TimelineAddNode == AddNode(TimelineKinds, MaxEditorNodes) /\ UIScope'

TimelineLinkCreated == CreateLink(MaxTimelineLinks) /\ UIScope'

TimelineToggle == ToggleTimeline /\ UIScope'

NextTimeline ==
    \/ UIPoll
    \/ UIShutdown
    \/ UISetup
    \/ UIRenderPick
    \/ UIRenderDraw
    \/ UIRenderSwap
    \/ \E i \in 0 .. (MaxEditorNodes - 1) : UIWorkerLeaves(i)
    \/ UIEditorIdle
    \/ UICommitGraph
    \/ TimelineAddNode
    \/ TimelineLinkCreated
    \/ TimelineToggle

SpecTimeline == Init /\ [][NextTimeline]_vars

\* ----------------------------------------------------- draw_node_options
\* The "Options" list of a node (lines 694-921) on the private data of the
\* node's probe. priv_class is the option table the library hands out for
\* the filter (av_opt_next, one entry per offset), as a sequence of option
\* types; probe_priv[n][k] is the value node n holds for entry k.
\* A double is modelled by an integer, a float by an even one; rationals
\* and sizes are records, strings are strings.
MaxOpts == 2

\* FLAGS and BOOL share their case (lines 741-763) and are "bool" here.
OptTypes == {"int64", "uint64", "duration", "bool", "int", "double", "float",
             "string", "rational", "image_size", "video_rate", "color"}

\* opt->min and opt->max (query_ranges, lines 490-491).
RangeMin == 0

RangeMax(type) == IF type = "float" THEN 2 ELSE 1

\* The double nearest a microsecond count holds fractions of it: doubles of
\* seconds are counted in 1/Finer microseconds (value / 1000000.0, line 733).
Finer == 2

\* float fvalue = value;  (line 806)
ToFloat(d) == 2 * (d \div 2)

Q(n, d) == [num |-> n, den |-> d]

\* A float of the colour case is [mant, exp], standing for mant * 2^exp,
\* with a mantissa of 24 bits (Bit23 <= mant < 2 * Bit23) or zero.
Bit23 == 8388608

\* The mantissa m + up rounded to nearest, carried into the exponent when
\* it reaches 2^24.
Rounded_Down(m, up, exp) == [mant |-> m, exp |-> exp]

Rounded(m, up, exp) ==
    IF m + up = 2 * Bit23
    THEN [mant |-> Bit23, exp |-> exp + 1]
    ELSE [mant |-> m + up, exp |-> exp]

\* i * 2^s = q * 255 + r: the binary long division of i by 255, carried on
\* until the quotient fills the mantissa.
RECURSIVE Div255(_, _, _)
Div255(q, r, s) ==
    IF q >= Bit23
    THEN Rounded(q, IF 2 * r > 255 THEN 1 ELSE 0, -s)
    ELSE Div255(2 * q + (IF 2 * r >= 255 THEN 1 ELSE 0), (2 * r) % 255, s + 1)

\* col[n] = icol[n] / 255.f;  (lines 896-899)
ToCol(i) ==
    IF i = 0 THEN [mant |-> 0, exp |-> 0] ELSE Div255(i \div 255, i % 255, 0)

\* col[n] * 255.f: the product mant * 255 = 256 * hi + lo, rounded to the
\* nearest float, ties to the even mantissa.
Times255(x) ==
    LET b == x.mant % 256
        hi == x.mant - (x.mant \div 256) - (IF b > 0 THEN 1 ELSE 0)
        lo == (256 - b) % 256
        m == 2 * hi + (lo \div 128)
        rem == lo % 128
    IN  IF x.mant = 0 THEN x
        ELSE IF hi >= Bit23
        THEN Rounded(hi, IF lo > 128 \/ (lo = 128 /\ hi % 2 = 1) THEN 1 ELSE 0,
                     x.exp + 8)
        ELSE Rounded(m, IF rem > 64 \/ (rem = 64 /\ m % 2 = 1) THEN 1 ELSE 0,
                     x.exp + 7)

\* icol[n] = col[n] * 255.f;  (lines 903-906): the conversion of the
\* product to unsigned drops its fraction.
ToIcol(x) ==
    LET y == Times255(x) IN
    IF y.mant = 0 \/ y.exp < -30 THEN 0
    ELSE IF y.exp < 0 THEN y.mant \div (2 ^ (-y.exp))
    ELSE y.mant * (2 ^ y.exp)

\* A colour option holds four bytes; av_opt_get and snprintf write them as
\* "0x%02x%02x%02x%02x" (line 907), here the sequence of the eight hex
\* digits.
ColorString(c) ==
    [d \in 1 .. 8 |-> LET byte == c[(d + 1) \div 2] % 256
                      IN  IF d % 2 = 1 THEN byte \div 16 ELSE byte % 16]

\* sscanf(old_str, "0x%02x%02x%02x%02X", ...)  (line 894), and the same
\* reading of the string by av_opt_set (line 908).
ScanColor(str) ==
    [n \in 1 .. 4 |-> 16 * str[2 * n - 1] + str[2 * n]]

\* What a fresh probe holds (avfilter_graph_alloc_filter, line 652).
DefaultOf(type) ==
    CASE type \in {"rational", "video_rate"} -> Q(1, 1)
      [] type = "image_size" -> [w |-> 1, h |-> 1]
      [] type = "string" -> ""
      [] type = "color" -> <<0, 0, 0, 255>>
      [] OTHER -> 0

\* What a widget can hand back when the user changes it: DragScalar and
\* DragFloat clamp to the range (ImGuiSliderFlags_AlwaysClamp), SliderInt
\* and DragInt2 take typed input beyond it.
WidgetValues(type) ==
    CASE type \in {"int64", "uint64", "double"} -> RangeMin .. RangeMax(type)
      [] type = "float" -> {0, 2}
      [] type = "duration" -> {0, 2, 3}
      [] type \in {"bool", "int"} -> RangeMin .. (RangeMax(type) + 1)
      [] type = "string" -> {"", "a"}
      [] type = "rational" -> {Q(1, 1), Q(1, 2), Q(1, 0)}
      [] type = "image_size" -> {[w |-> 1, h |-> 1], [w |-> 2, h |-> 1]}
      [] type = "video_rate" -> {Q(1, 1), Q(2, 1), Q(0, 0)}
      [] type = "color" -> {<<0, 0, 0, 255>>, <<255, 127, 1, 128>>}

\* v lies in the range the option declares (write_number's test for the
\* numeric types; a rate needs positive terms).
InRange(type, v) ==
    CASE type \in {"int64", "uint64", "bool", "int", "double", "float"} ->
            RangeMin <= v /\ v <= RangeMax(type)
      [] type = "duration" -> v >= 0
      [] type = "rational" ->
            v.den > 0 /\ RangeMin * v.den <= v.num /\ v.num <= RangeMax(type) * v.den
      [] type = "video_rate" -> v.num > 0 /\ v.den > 0
      [] OTHER -> TRUE

\* What the widget of an option shows: the av_opt_get* call of the case and
\* the conversion to the widget's variable; a rate comes from the static
\* variable of line 861 once that holds one (lines 865-870).
Offered(type, stored, r) ==
    CASE type = "duration" -> stored * Finer
      [] type = "float" -> ToFloat(stored)
      [] type = "video_rate" -> IF r = NoRate THEN stored ELSE r
      [] type = "color" -> ScanColor(ColorString(stored))
      [] OTHER -> stored

\* What the option holds after its widget handed back w: the conversion
\* from the widget's variable and the av_opt_set* call of the case, which
\* refuses a value outside the range.
Stored_Previous(type, old, w) == old

Stored(type, old, w) ==
    LET value == CASE type = "uint64" -> old
                   [] type = "duration" -> w \div Finer
                   [] type = "float" -> ToFloat(w)
                   [] type = "color" ->
                        ScanColor(ColorString([n \in 1 .. 4 |-> ToIcol(ToCol(w[n]))]))
                   [] OTHER -> w
    IN  IF InRange(type, value) THEN value ELSE old

\* The option loop of one node (lines 694-921) from entry k on: priv is
\* the private data of the node's probe, r the static rate, e the widget
\* the user changes in this frame (e.opt = -1: not one of this node).
RECURSIVE DrawOptions(_, _, _, _, _)
DrawOptions(table, priv, r, k, e) ==
    IF k >= Len(table)
    THEN [priv |-> priv, rate |-> r]
    ELSE LET type == At(table, k)
             old == At(priv, k)
             loaded == IF type = "video_rate" /\ r = NoRate THEN old ELSE r
             hit == e.opt = k
             r_next == IF hit /\ type = "video_rate" THEN e.value ELSE loaded
             new == IF hit THEN Stored(type, old, e.value)
                    ELSE IF type = "color"
                    THEN Stored(type, old, Offered(type, old, r))
                    ELSE old
         IN  DrawOptions(table, SetAt(priv, k, new), r_next, k + 1, e)

\* draw_node_options for the nodes n, n+1, ... in the order of the node
\* loop of the editor (line 1084), every list being open.
RECURSIVE DrawNodes(_, _, _, _, _)
DrawNodes(table, privs, r, n, e) ==
    IF n >= Len(privs)
    THEN [privs |-> privs, rate |-> r]
    ELSE LET d == DrawOptions(table, At(privs, n), r, 0,
                              IF e.node = n THEN e ELSE NoWidget)
         IN  DrawNodes(table, SetAt(privs, n, d.priv), d.rate, n + 1, e)

\* A pass of the editor with the lists open, in which the user changes the
\* widget e (or none: e = NoWidget).
OptionsPass(e) ==
    LET d == DrawNodes(priv_class, probe_priv, rate, 0, e) IN
    /\ EditorReady
    /\ Len(probe_priv) > 0
    /\ sent' = NoCommand
    /\ selection' = <<>>
    /\ opt_edit' = e
    /\ probe_priv' = d.privs
    /\ rate' = d.rate
    /\ EndEditor(AllProbed(filter_nodes), EdgesOf(filter_nodes, 0, Len(filter_nodes)))
    /\ UNCHANGED <<filter_links, need_filters_reinit, editor_frame, priv_class>>

OptionsShown == ui_event' = "idle" /\ OptionsPass(NoWidget)

OptionEdited ==
    \E n \in Idx(probe_priv), k \in Idx(priv_class) :
       \E w \in WidgetValues(At(priv_class, k)) :
          /\ ui_event' = "edit_option"
          /\ OptionsPass([node |-> n, opt |-> k, value |-> w])

\* The option lists on their own: a source and a sink whose filters have
\* the option table priv_class were placed, linked and drawn, their lists
\* are open, and no rebuild is asked for. The window stays open.
InitOptions ==
    /\ priv_class \in [1 .. MaxOpts -> OptTypes]
    /\ filter_nodes = AllProbed(<<NewNode("testsrc", <<>>),
                                  NewNode("buffersink", <<0>>)>>)
    /\ probe_priv = [n \in 1 .. 2 |->
                        [k \in 1 .. MaxOpts |-> DefaultOf(priv_class[k])]]
    /\ rate = NoRate
    /\ opt_edit = NoWidget
    /\ selection = <<>>
    /\ stepped = {}
    /\ filter_links = <<<<1, 3>>>>
    /\ edge2pad = ToPad(EdgesOf(filter_nodes, 0, 2))
    /\ edge2type = ToType(EdgesOf(filter_nodes, 0, 2))
    /\ filter_graph = "null"
    /\ graphdump_text = "null"
    /\ buffer_sinks = <<>>
    /\ av_frames = <<>>
    /\ mutexes = <<>>
    /\ video_sink_threads = <<>>
    /\ need_filters_reinit = FALSE
    /\ framestep = FALSE
    /\ paused = TRUE
    /\ show_buffersink_window = TRUE
    /\ sink_pts = <<>>
    /\ setup_ret = [ret |-> "skipped", linked_sinks |-> 0, indexed |-> {}]
    /\ mpc = "poll"
    /\ sink_i = 0
    /\ render_frame = NullFrame
    /\ picked = NoPick
    /\ drawn = NullFrame
    /\ shown = <<>>
    /\ ui_event = "none"
    /\ sent = NoCommand

OptionsPoll == Poll /\ mpc' = "setup"

OptionsSetup == filters_setup

NextOptions ==
    \/ OptionsPoll
    \/ OptionsSetup
    \/ OptionsShown
    \/ OptionEdited

SpecOptions == InitOptions /\ [][NextOptions]_vars

\* Edits and rebuilds that fail: the same sessions for filters with int and
\* string options, in which the user also commits and every rebuild fails
\* at one of the places where the engine can refuse.
InitRetry == InitOptions /\ priv_class \in [1 .. MaxOpts -> {"int", "string"}]

RetrySetup == filters_setup /\ setup_ret'.ret # "ok"

RetryCommit == CommitGraph

NextRetry ==
    \/ OptionsPoll
    \/ RetrySetup
    \/ RetryCommit
    \/ OptionsShown
    \/ OptionEdited

SpecRetry == InitRetry /\ [][NextRetry]_vars

\* The deletion of links on its own: three one-in/one-out filters were
\* placed and drawn; the user draws up to MaxSelLinks links between them
\* and deletes links and selections. Nothing is committed, so no thread is
\* ever started.
MaxSelLinks == 3

InitLinks ==
    /\ filter_nodes = AllProbed(<<NewNode("null", <<>>), NewNode("null", <<0>>),
                                  NewNode("null", <<0, 1>>)>>)
    /\ filter_links = <<>>
    /\ edge2pad = ToPad(EdgesOf(filter_nodes, 0, 3))
    /\ edge2type = ToType(EdgesOf(filter_nodes, 0, 3))
    /\ filter_graph = "null"
    /\ graphdump_text = "null"
    /\ buffer_sinks = <<>>
    /\ av_frames = <<>>
    /\ mutexes = <<>>
    /\ video_sink_threads = <<>>
    /\ need_filters_reinit = FALSE
    /\ framestep = FALSE
    /\ paused = TRUE
    /\ show_buffersink_window = TRUE
    /\ sink_pts = <<>>
    /\ setup_ret = [ret |-> "skipped", linked_sinks |-> 0, indexed |-> {}]
    /\ mpc = "poll"
    /\ sink_i = 0
    /\ render_frame = NullFrame
    /\ picked = NoPick
    /\ drawn = NullFrame
    /\ shown = <<>>
    /\ ui_event = "none"
    /\ sent = NoCommand
    /\ priv_class = <<>>
    /\ probe_priv = <<>>
    /\ rate = NoRate
    /\ opt_edit = NoWidget
    /\ selection = <<>>
    /\ stepped = {}

LinksLinkCreated == CreateLink(MaxSelLinks)

NextLinks ==
    \/ OptionsPoll
    \/ OptionsSetup
    \/ EditorIdle
    \/ LinksLinkCreated
    \/ LinkDestroyed
    \/ DeleteSelected

SpecLinks == InitLinks /\ [][NextLinks]_vars

\* ------------------------------------------------------------------ claims
\* A step of the render/UI thread that frees or replaces the engine
\* instance, frees a node's live handle, or clears or refills the sink and
\* mutex collections.
LiveHandles(nodes) == {i \in Idx(nodes) : At(nodes, i).ctx = "live"}

TearsDown ==
    \/ mpc = "setup" /\ need_filters_reinit /\ Len(filter_nodes) > 0 /\ mpc' # "setup"
    \/ filter_graph' # filter_graph
    \/ Len(buffer_sinks') # Len(buffer_sinks)
    \/ Len(mutexes') # Len(mutexes)
    \/ Cardinality(LiveHandles(filter_nodes')) < Cardinality(LiveHandles(filter_nodes))

\* C1: rebuild is a hard barrier. Every step that frees or replaces the
\* engine instance or a live handle, or clears or refills the sink and mutex
\* collections, is taken with every spawned worker thread already out of
\* worker_thread (joined), so no worker reads a sink or a handle after its
\* teardown began.
C1_RebuildBarrier ==
    [][TearsDown => \A i \in Workers : WPc(i) = "done"]_vars

\* C1 witness: N > 0 threads were started, a rebuild was requested, all of
\* them have left worker_thread and the rebuild is about to tear down.
C1_Witness ==
    /\ mpc = "setup" /\ need_filters_reinit
    /\ Len(filter_nodes) > 0
    /\ Len(video_sink_threads) > 0
    /\ \A i \in Workers : WPc(i) = "done"
    /\ filter_graph = "live"

\* The render thread has picked a frame of sink sink_i and draw_frame has
\* not returned yet.
Displaying(i) == mpc = "draw" /\ sink_i = i /\ render_frame \in {1, 2}

\* The worker of sink i is between av_frame_unref and the return of the pull.
Writing(i) == i \in Workers /\ WPc(i) = "pull"

\* The only steps that change which AVFrame a sink's a_frame and b_frame
\* point to: the swap of the render loop with the mutex free for it, the
\* frees of the exiting worker, and the refill of the collection.
PointersChange(i) ==
    \/ At(buffer_sinks', i).a_frame # At(buffer_sinks, i).a_frame
    \/ At(buffer_sinks', i).b_frame # At(buffer_sinks, i).b_frame

C3_SwapOnly ==
    \A i \in Idx(buffer_sinks) \cap Idx(buffer_sinks') :
        PointersChange(i) =>
            \/ /\ mpc = "swap" /\ sink_i = i /\ At(mutexes, i) = "free"
               /\ At(buffer_sinks, i).uploaded_frame
               /\ ~Writing(i)
            \/ i \in Workers /\ WPc(i) = "exit"
            \/ mpc = "setup"

C3_NoWriteWhileDisplayed ==
    \A i \in Idx(buffer_sinks) :
        Displaying(i) =>
            /\ Writing(i) => WFrame(i) # render_frame
            /\ i \in Workers => WPc(i) \notin {"exit", "done"}

\* C3: in every interleaving the worker never unrefs, pulls into or frees
\* the AVFrame the render thread has picked and is displaying, and a_frame
\* and b_frame change hands only in the render thread's swap, taken with
\* the mutex and with no pull in progress.
C3_DisplayedBufferUntouched ==
    [](C3_NoWriteWhileDisplayed) /\ [][C3_SwapOnly]_vars

\* C3 witness: the render thread displays one buffer of a sink while the
\* worker of that sink is pulling into the other one.
C3_Witness ==
    /\ Displaying(sink_i)
    /\ Writing(sink_i)
    /\ WFrame(sink_i) \in {1, 2}
    /\ WFrame(sink_i) # render_frame

\* A step in which the render loop swaps a_frame and b_frame of sink i.
Swaps(i) ==
    /\ mpc = "swap" /\ sink_i = i
    /\ mpc' # "swap" \/ sink_i' # i
    /\ i \in Idx(buffer_sinks) /\ i \in Idx(buffer_sinks')
    /\ At(buffer_sinks, i).uploaded_frame
    /\ ~At(buffer_sinks', i).uploaded_frame

\* C4 as stated: whenever the render loop finds the flag set and swaps, the
\* staged frame (a_frame) is the one it handed to draw_frame for display in
\* this pass, so no staged frame goes to the back undisplayed.
C4_ReadyFrameShownBeforeSwap ==
    [][\A i \in Idx(buffer_sinks) :
          Swaps(i) => drawn # NullFrame /\ drawn = At(buffer_sinks, i).a_frame]_vars

\* A step in which draw_frame hands render_frame of sink i to load_frame.
Displays(i) ==
    /\ mpc = "draw" /\ sink_i = i /\ mpc' = "swap"
    /\ show_buffersink_window
    /\ render_frame # NullFrame

\* C9 as stated: once paused with no single-step requested, every later
\* display of an Output shows the frame its previous display showed.
C9_PausedDisplayFrozen ==
    [][\A i \in Idx(buffer_sinks) :
          (Displays(i) /\ At(shown, i).quiet) =>
              FrameContent(i, render_frame) = At(shown, i).pts]_vars

\* C9 (amended): once paused with no single-step requested, the displayed
\* frame advances at most once more, to the frame the worker stages; after
\* a display of the staged frame (flag set at the pick), every later display
\* shows that same frame, whatever the worker does in between.
C9_PausedDisplayFrozenOnceStaged ==
    [][\A i \in Idx(buffer_sinks) :
          (Displays(i) /\ At(shown, i).quiet /\ At(shown, i).staged) =>
              /\ FrameContent(i, render_frame) = At(shown, i).pts
              /\ render_frame = At(buffer_sinks, i).a_frame
              /\ At(buffer_sinks, i).uploaded_frame]_vars

\* C9 witness: paused, no single-step, the staged frame (a delivered one)
\* was displayed in an earlier pass and is picked for display again while
\* the worker is alive.
C9_Witness ==
    /\ mpc = "draw"
    /\ show_buffersink_window
    /\ render_frame \in {1, 2}
    /\ paused /\ ~framestep
    /\ At(shown, sink_i).quiet /\ At(shown, sink_i).staged
    /\ At(shown, sink_i).pts > 0
    /\ sink_i \in Workers /\ WPc(sink_i) \notin {"exit", "done"}

\* C2 as stated: after a rebuild, either it succeeded and there are as many
\* Outputs as buffersink nodes with a connected input, or it failed and
\* there is no Output.
C2_OutputsMatchSinksOrEmpty ==
    /\ setup_ret.ret = "ok" => Len(buffer_sinks) = setup_ret.linked_sinks
    /\ setup_ret.ret = "err" => Len(buffer_sinks) = 0

\* C5 as stated: after a rebuild that failed, the engine instance is null.
C5_FailedRebuildLeavesNoGraph ==
    setup_ret.ret = "err" => filter_graph = "null"

\* C6 as stated: after a rebuild that failed, no node has a live handle.
C6_FailedRebuildClearsHandles ==
    setup_ret.ret = "err" => \A i \in Idx(filter_nodes) : At(filter_nodes, i).ctx = "null"

\* C7 as stated: a worker whose last pull failed with another error than
\* EAGAIN performs no further pull on its sink.
C7_PullErrorEndsLoop ==
    [][\A i \in Workers \cap Idx(video_sink_threads') :
          (WPc(i) = "pull" /\ At(video_sink_threads', i).pc = "relock")
              => WRet(i) # "error"]_vars

\* C8 as stated: the flag of a sink is set only after a pull that delivered
\* a frame; a pull that reported EAGAIN leaves it false.
C8_ReadyOnlyAfterFrame ==
    [][\A i \in Workers \cap Idx(buffer_sinks) \cap Idx(buffer_sinks') :
          (~At(buffer_sinks, i).uploaded_frame /\ At(buffer_sinks', i).uploaded_frame)
              => WRet(i) = "ok"]_vars

\* The sets of node indices whose erasure turns filter_nodes into
\* filter_nodes' (by id and kind).
Sig(nodes) == [k \in 1 .. Len(nodes) |-> <<nodes[k].id, nodes[k].filter>>]

RemovedSets ==
    {R \in SUBSET Idx(filter_nodes) :
        R # {} /\ Sig(EraseMarked(filter_nodes, R)) = Sig(filter_nodes')}

\* Link j of filter_links references a pad of a node of R in the slot table
\* of the current nodes.
LinkTouches(j, R) ==
    LET edges == EdgesOf(filter_nodes, 0, Len(filter_nodes))
        p == At(filter_links, j)
    IN  \/ p[1] \in Idx(edges) /\ At(edges, p[1]).node \in R
        \/ p[2] \in Idx(edges) /\ At(edges, p[2]).node \in R

\* C10 as stated: a pass of the editor that removes nodes (no thread alive)
\* removes every link that referenced a pad of a removed node.
C10_RemovalCascadesToLinks ==
    [][(mpc = "editor" /\ mpc' = "poll" /\ Len(filter_nodes') < Len(filter_nodes)) =>
          \A R \in RemovedSets : \A j \in Idx(filter_links) :
              LinkTouches(j, R) =>
                  ~\E k \in Idx(filter_links') : At(filter_links', k) = At(filter_links, j)]_vars

\* A pass of the editor in which the user asked for event e; ui_event keeps
\* e until the next frame starts.
Handles(events) == mpc = "editor" /\ ui_event' \in events

\* C11: while a thread of video_sink_threads is alive (started and not yet
\* joined and cleared), a pass of the editor with a remove request (the
\* Remove button, or the X key with a selection) leaves filter_nodes with
\* the same nodes in the same order.
C11_RemovalRejectedWhileRunning ==
    [][(Handles({"remove", "delete_selected"}) /\ Len(video_sink_threads) > 0) =>
          /\ Len(filter_nodes') = Len(filter_nodes)
          /\ Sig(filter_nodes') = Sig(filter_nodes)]_vars

\* C11 witness: a remove request was handled while a worker was alive and
\* still in its loop, and the nodes are all there.
C11_Witness ==
    /\ mpc = "poll"
    /\ ui_event = "remove"
    /\ Len(video_sink_threads) > 0
    /\ \E i \in Workers : WPc(i) \notin {"exit", "done"}
    /\ Len(filter_nodes) = MaxNodes

\* A call of filters_setup() that ran the rebuild and returned ret.
RebuildReturns(ret) ==
    mpc = "setup" /\ mpc' # "setup" /\ need_filters_reinit /\ setup_ret'.ret = ret

\* C14: after every rebuild that succeeded there is one started thread and
\* one mutex per sink, thread i being at the top of worker_thread for sink
\* i, and the graph dump is set.
C14_OneThreadPerOutput ==
    [][RebuildReturns("ok") =>
          /\ Len(video_sink_threads') = Len(buffer_sinks')
          /\ Len(mutexes') = Len(buffer_sinks')
          /\ \A i \in Idx(buffer_sinks') :
                /\ At(video_sink_threads', i).pc = "top"
                /\ At(buffer_sinks', i).ctx = "live"
          /\ graphdump_text' # "null"]_vars

\* C14 witness: a source linked to a sink was rebuilt successfully: one
\* sink, its thread running.
C14_Witness ==
    /\ setup_ret.ret = "ok"
    /\ mpc = "pick"
    /\ Len(buffer_sinks) = 1
    /\ Len(video_sink_threads) = 1
    /\ WPc(0) \in {"lock", "check", "pull", "relock"}

\* C15 as stated: every run of a pending rebuild frees the previous graph,
\* dump and sinks before it builds anything, also when filter_nodes is
\* empty: afterwards the sinks are those the run pushed (none for an empty
\* node collection), and with no node there is no graph and no dump.
C15_RebuildFreesPrevious ==
    [][(mpc = "setup" /\ mpc' # "setup" /\ need_filters_reinit) =>
          /\ \A i \in Idx(buffer_sinks') :
                At(buffer_sinks', i) \in {PushedSink, StartedSink}
          /\ Len(filter_nodes) = 0 =>
                /\ Len(buffer_sinks') = 0
                /\ Len(mutexes') = 0
                /\ graphdump_text' = "null"
                /\ filter_graph' = "null"]_vars

\* C16: after a rebuild that failed, whichever step failed and however many
\* nodes and sinks were instantiated before it, video_sink_threads is empty.
C16_FailedRebuildRunsNothing ==
    setup_ret.ret = "err" => Len(video_sink_threads) = 0

\* C16 witness: a rebuild failed after it had pushed a sink.
C16_Witness ==
    /\ setup_ret.ret = "err"
    /\ Len(buffer_sinks) > 0
    /\ filter_graph = "live"
    /\ mpc = "editor"

\* The step in which a call of filters_setup() that went past its early
\* returns (an engine instance was allocated) comes back.
RebuildRuns ==
    mpc = "setup" /\ mpc' # "setup" /\ setup_ret'.ret \in {"ok", "err"}

Edits ==
    {"add_filter", "remove", "delete_selected", "link_created",
     "link_destroyed", "edit_option"}

\* C17: after startup the rebuild request is raised by the commit key only.
\* A pass of the editor leaves need_filters_reinit set exactly when it
\* handled the commit key, and changes neither the engine instance nor the
\* outputs nor the threads; the top of the main loop hands the request on
\* unchanged, and a request it hands on with nodes present comes from a
\* commit; filters_setup() builds only when the request is set. No pass
\* that handled an edit (node or link added or removed, option edited) is
\* followed by a rebuild.
C17_OnlyCommitRequestsRebuild ==
    [][/\ (mpc = "editor" /\ mpc' # "editor") =>
             /\ need_filters_reinit' <=> (ui_event' = "commit")
             /\ filter_graph' = filter_graph
             /\ graphdump_text' = graphdump_text
             /\ buffer_sinks' = buffer_sinks
             /\ Len(video_sink_threads') = Len(video_sink_threads)
       /\ (mpc = "poll" /\ mpc' = "setup") =>
             /\ need_filters_reinit' = need_filters_reinit
             /\ need_filters_reinit =>
                   (ui_event = "commit" \/ Len(filter_nodes) = 0)
             /\ ui_event \in Edits => ~need_filters_reinit
       /\ RebuildRuns => need_filters_reinit]_vars

\* An option was edited while a graph was up, and no rebuild is requested.
C17_Witness ==
    /\ mpc = "poll"
    /\ ui_event = "edit_option"
    /\ filter_graph = "live"
    /\ Len(buffer_sinks) > 0
    /\ ~need_filters_reinit

\* C18: a frame that starts with the outputs hidden and threads present
\* (and the window not closed) takes the drain path of lines 1582-1595: it
\* goes on to filters_setup() only once every thread has left
\* worker_thread, with video_sink_threads empty and the request cleared,
\* and the nodes, links, engine instance, dump and sinks as they were;
\* filters_setup() called without a request returns at line 165 and
\* changes none of them and starts no thread.
C18_DrainOnlyDoesNotRebuild ==
    [][/\ (/\ mpc = "poll" /\ mpc' \notin {"poll", "shutdown"}
           /\ ~show_buffersink_window /\ Len(video_sink_threads) > 0) =>
             mpc' = "drain"
       /\ (mpc = "drain" /\ mpc' # "drain") =>
             /\ \A i \in Workers : WPc(i) = "done"
             /\ video_sink_threads' = <<>>
             /\ mpc' = "setup"
             /\ ~need_filters_reinit'
             /\ UNCHANGED <<filter_nodes, filter_links, filter_graph,
                            graphdump_text, buffer_sinks, mutexes>>
       /\ (mpc = "setup" /\ mpc' # "setup" /\ ~need_filters_reinit) =>
             /\ setup_ret'.ret = "skipped"
             /\ UNCHANGED <<filter_nodes, filter_links, filter_graph,
                            graphdump_text, buffer_sinks, mutexes,
                            video_sink_threads>>]_vars

\* The drain was just done: the sinks and mutexes of the last build are
\* still there, no thread is, and filters_setup() is about to be called.
C18_Witness ==
    /\ mpc = "setup"
    /\ ~show_buffersink_window
    /\ ~need_filters_reinit
    /\ Len(video_sink_threads) = 0
    /\ Len(mutexes) > 0
    /\ filter_graph = "live"

Engine(nodes) == [k \in 1 .. Len(nodes) |-> <<nodes[k].ctx, nodes[k].priv>>]

\* C12: while video_sink_threads holds a thread, a pass of the editor that
\* handled a link-created, a link-destroyed or a delete-selected event
\* leaves filter_links as it was, and the engine instance, the nodes'
\* handles and option values too; no command is sent.
C12_LinkEditsRejectedWhileRunning ==
    [][(/\ Handles({"link_created", "link_destroyed", "delete_selected"})
        /\ Len(video_sink_threads) > 0) =>
          /\ filter_links' = filter_links
          /\ filter_graph' = filter_graph
          /\ graphdump_text' = graphdump_text
          /\ Engine(filter_nodes') = Engine(filter_nodes)
          /\ sent' = NoCommand]_vars

\* A link was drawn from the source of a running graph to a node added
\* while it runs.
C12_Witness ==
    /\ mpc = "poll"
    /\ ui_event = "link_created"
    /\ Len(video_sink_threads) > 0
    /\ WPc(0) = "top"
    /\ Len(filter_nodes) = MaxEditorNodes
    /\ Len(filter_links) = 1

\* C13: a pass that handled a link-created event leaves filter_links as
\* it was or appends one link, and the two slots of an appended link have
\* the same media type in the slot table of that pass. (The appended link
\* is the pair of slots of the event: an event between slots of different
\* types that appended its link would append such a pair.)
C13_LinkOnlyBetweenEqualTypes ==
    [][Handles({"link_created"}) =>
          \/ filter_links' = filter_links
          \/ /\ Len(filter_links') = Len(filter_links) + 1
             /\ SubSeq(filter_links', 1, Len(filter_links)) = filter_links
             /\ LET p == filter_links'[Len(filter_links')] IN
                /\ p[1] \in Idx(edge2type') /\ p[2] \in Idx(edge2type')
                /\ At(edge2type', p[1]) = At(edge2type', p[2])
                /\ At(edge2type', p[1]) \in {"video", "audio"}]_vars

\* With no thread around, a link drawn from a video output to the audio
\* input of an anullsink was refused: no link exists.
C13_Witness ==
    /\ mpc = "poll"
    /\ ui_event = "link_created"
    /\ Len(video_sink_threads) = 0
    /\ Len(filter_links) = 0
    /\ \E s \in Idx(edge2type) : At(edge2type, s) = "audio"
    /\ \E s \in Idx(edge2type) : At(edge2type, s) = "video"

\* The staged values (the value caches) of the nodes.
Caches(nodes) == [k \in 1 .. Len(nodes) |-> nodes[k].opt_storage]

\* C20: in a pass of the windows, a command is sent exactly when "Send"
\* was clicked. A pass in which the option of a committed node was shown
\* or edited changes the caches only (an edit leaves the edited value in
\* one node's cache, a first showing the engine's value) and nothing the
\* engine holds. The command of a
\* "Send" names the node it was clicked for, by the name the node's filter
\* has in the graph, and carries the value that node's cache held for the
\* option; the caches stay as they were.
C20_StagedUntilSent ==
    [][/\ (sent' # NoCommand) => (mpc = "editor" /\ ui_event' = "command_send")
       /\ Handles({"command_send"}) => sent' # NoCommand
       /\ Handles({"commands_shown", "command_edit"}) =>
             /\ Engine(filter_nodes') = Engine(filter_nodes)
             /\ filter_graph' = filter_graph
             /\ ui_event' = "command_edit" =>
                   \E n \in Commandable(filter_nodes), v \in OptValues :
                      Caches(filter_nodes') =
                          SetAt(Caches(filter_nodes), n,
                                <<Entry(OptIndex(At(filter_nodes, n).filter), v)>>)
             /\ ui_event' = "commands_shown" =>
                   \E n \in Commandable(filter_nodes) :
                      LET node == At(filter_nodes, n) IN
                      Caches(filter_nodes') =
                          SetAt(Caches(filter_nodes), n,
                                IF Len(node.opt_storage) = 0
                                THEN <<Entry(OptIndex(node.filter), node.priv)>>
                                ELSE node.opt_storage)
       /\ Handles({"command_send"}) =>
             LET n == sent'.node IN
             /\ n \in Commandable(filter_nodes)
             /\ OptIndex(At(filter_nodes, n).filter)
                    < Len(At(filter_nodes, n).opt_storage)
             /\ sent'.target = Label(At(filter_nodes, n))
             /\ sent'.arg = At(At(filter_nodes, n).opt_storage,
                               OptIndex(At(filter_nodes, n).filter)).v
             /\ At(filter_nodes', n).priv = sent'.arg
             /\ Caches(filter_nodes') = Caches(filter_nodes)]_vars

\* C21: the value cache of a node is aligned with the enumeration of the
\* options of its kind: a cache the option loop has gone through (it is
\* not empty) holds more entries than the index at which the loop read and
\* wrote it, and each entry was pushed for the option of its own index.
C21_CacheAligned ==
    \A n \in Idx(filter_nodes) :
       LET node == At(filter_nodes, n) IN
       (mpc # "crashed" /\ Len(node.opt_storage) > 0) =>
          /\ OptIndex(node.filter) < Len(node.opt_storage)
          /\ \A k \in Idx(node.opt_storage) : At(node.opt_storage, k).for = k

\* The widget changed in the last pass, and the option it belongs to.
EditedType == At(priv_class, opt_edit.opt)

EditedValue == At(At(probe_priv, opt_edit.node), opt_edit.opt)

\* A pass of the editor in which the user changed a widget of an "Options"
\* list.
EditsWidget == mpc = "editor" /\ ui_event' = "edit_option" /\ opt_edit'.node >= 0

\* C22: before any rebuild, an option of kind integer, float, string,
\* rational or boolean that is set to a value v of its declared range
\* through its widget reads back as v through the same widget.
C22_OptionRoundTrip ==
    [][EditsWidget =>
          LET type == EditedType'
              v == opt_edit'.value
          IN  (type \in {"int", "float", "string", "rational", "bool"}
               /\ InRange(type, v)) =>
                 Offered(type, EditedValue', rate') = v]_vars

C22_Witness ==
    /\ ui_event = "edit_option"
    /\ opt_edit.node >= 0
    /\ EditedType = "float"
    /\ opt_edit.value = 2
    /\ EditedValue = 2
    /\ \E k \in Idx(priv_class) : At(priv_class, k) = "rational"
    /\ setup_ret.ret = "skipped"

\* The value the user left in a widget, in the unit of the option.
Chosen(type, w) ==
    CASE type = "duration" -> w \div Finer
      [] type = "float" -> ToFloat(w)
      [] OTHER -> w

\* C23: on the static path an edit of a widget, of whatever kind, writes
\* the newly chosen value (when the option's range admits it) to the node
\* in the same frame, not the value the option held before.
C23_EditWritesNewValue ==
    [][EditsWidget =>
          LET type == EditedType'
              v == Chosen(type, opt_edit'.value)
          IN  InRange(type, v) => EditedValue' = v]_vars

\* The static rate as the next pass finds it at entry k of node n: after
\* the lists of the nodes before n and the entries before k were drawn.
RateAt(n, k) ==
    LET r == DrawNodes(priv_class, SubSeq(probe_priv, 1, n), rate, 0, NoWidget).rate
    IN  DrawOptions(SubSeq(priv_class, 1, k), At(probe_priv, n), r, 0, NoWidget).rate

\* C24: the value a widget offers for editing is the value its node holds
\* for its option at that time, whatever was read or edited before for
\* another option or another node.
C24_OfferedIsStored ==
    \A n \in Idx(probe_priv), k \in Idx(priv_class) :
       LET type == At(priv_class, k)
           held == At(At(probe_priv, n), k)
       IN  Offered(type, held, RateAt(n, k)) = Offered(type, held, NoRate)

\* A pass in which the toggle of a node's "Timeline" tree was clicked.
TogglesTimeline == mpc = "editor" /\ ui_event' = "timeline_toggle"

C26_IdentityIsIndex ==
    mpc # "crashed" =>
       \A i \in Idx(filter_nodes) : At(filter_nodes, i).id = i

\* C27: once need_filters_reinit is set, every worker that is running
\* leaves worker_thread (unless a rebuild that joined it has cleared the
\* flag again), paused or not and whatever uploaded_frame is; so each of
\* the three joins of the render/UI thread finds every thread finished.
C27_WorkersLeave ==
    /\ \A i \in 0 .. (MaxNodes - 1) :
          (need_filters_reinit /\ i \in Workers /\ WPc(i) # "done")
             ~> (~need_filters_reinit \/ i \notin Workers \/ WPc(i) = "done")
    /\ \A p \in {"setup", "drain", "shutdown"} :
          (mpc = p /\ need_filters_reinit) ~> (mpc # p \/ Joined)

C27_Witness ==
    /\ need_filters_reinit
    /\ mpc = "drain"
    /\ ~paused
    /\ \E i \in Workers : /\ WPc(i) = "done"
                          /\ At(buffer_sinks, i).uploaded_frame = FALSE
                          /\ At(sink_pts, i) > 0

\* A step of the swap section of the render loop for sink i (lines
\* 1613-1621).
SwapSection(i) ==
    /\ mpc = "swap" /\ sink_i = i
    /\ mpc' # "swap" \/ sink_i' # i

\* C28: outside a rebuild, uploaded_frame of a sink is cleared only by the
\* swap section of the render loop, with the mutex taken, only when it was
\* set and the system is not paused or a single step was asked for, and
\* together with the exchange of a_frame and b_frame; the section does
\* one exactly when it does the other; and the flag is set only by the
\* sink's worker, holding the mutex.
C28_SwapAndClearTogether ==
    [][mpc # "setup" =>
          \A i \in Idx(buffer_sinks) \cap Idx(buffer_sinks') :
             LET sink == At(buffer_sinks, i)
                 after == At(buffer_sinks', i)
                 cleared == sink.uploaded_frame /\ ~after.uploaded_frame
                 set == ~sink.uploaded_frame /\ after.uploaded_frame
                 exchanged == /\ after.a_frame = sink.b_frame
                              /\ after.b_frame = sink.a_frame
             IN  /\ cleared =>
                       /\ SwapSection(i)
                       /\ ~paused \/ framestep
                       /\ At(mutexes, i) = "free"
                       /\ exchanged
                 /\ (SwapSection(i) /\ PointersChange(i)) => (cleared /\ exchanged)
                 /\ (SwapSection(i) /\ ~cleared) => ~PointersChange(i)
                 /\ set =>
                       /\ i \in Workers /\ WPc(i) = "relock"
                       /\ mpc' = mpc
                       /\ At(mutexes', i) = "worker"]_vars

\* A frame was staged and swapped to the front during a single step of a
\* paused system.
C28_Witness ==
    /\ paused
    /\ \E i \in Idx(buffer_sinks) :
          /\ At(buffer_sinks, i).a_frame = 2
          /\ At(buffer_sinks, i).b_frame = 1
          /\ ~At(buffer_sinks, i).uploaded_frame
          /\ At(sink_pts, i) > 0

\* A call of filters_setup that fails.
RebuildFails == mpc = "setup" /\ setup_ret'.ret = "err"

\* What the user built of a node: which node it is, its kind, its probe
\* and the values cached for its commands.
UserPart(node) == <<node.id, node.filter, node.named, node.probe, node.opt_storage>>

\* C29: a rebuild that fails leaves filter_nodes with the same nodes in
\* the same order, of the same kinds and with the option values the user
\* gave them, and leaves filter_links as it was.
C29_FailedRebuildKeepsGraph ==
    [][RebuildFails =>
          /\ Len(filter_nodes') = Len(filter_nodes)
          /\ \A i \in Idx(filter_nodes) :
                UserPart(At(filter_nodes', i)) = UserPart(At(filter_nodes, i))
          /\ probe_priv' = probe_priv
          /\ filter_links' = filter_links]_vars

\* A rebuild failed on a graph with a link and with an option the user
\* had given another value than its default.
C29_Witness ==
    /\ setup_ret.ret = "err"
    /\ Len(filter_links) = 1
    /\ \E n \in Idx(probe_priv), k \in Idx(priv_class) :
          /\ At(priv_class, k) = "int"
          /\ At(At(probe_priv, n), k) = 1

\* The graph the user has drawn is one the engine accepts when nothing
\* fails on the engine's side.
Buildable ==
    /\ Len(filter_nodes) > 0
    /\ \A garbage \in GarbageFor(filter_links, edge2pad) :
          Rebuild(filter_nodes, filter_links, edge2pad,
                  [at |-> "none", i |-> 0], garbage).ret = "ok"

\* C30: a rebuild that fails clears need_filters_reinit and goes on with
\* the frame; while the flag is clear filters_setup does nothing; the flag
\* is raised again only by the commit key, by closing the window or by
\* hiding the outputs of running threads; and a rebuild asked for on a
\* graph the engine accepts can succeed whatever failed before.
C30_FailedRebuildIsIdle ==
  /\ []((mpc = "setup" /\ need_filters_reinit /\ Joined /\ Buildable) =>
           ENABLED (filters_setup /\ setup_ret'.ret = "ok"))
  /\
    [][/\ RebuildReturns("err") =>
             /\ ~need_filters_reinit'
             /\ mpc' \in {"pick", "editor"}
       /\ (mpc = "setup" /\ mpc' # "setup" /\ ~need_filters_reinit) =>
             /\ setup_ret'.ret = "skipped"
             /\ UNCHANGED <<filter_nodes, filter_links, filter_graph,
                            buffer_sinks, mutexes, video_sink_threads,
                            need_filters_reinit>>
       /\ (~need_filters_reinit /\ need_filters_reinit') =>
             \/ mpc = "editor" /\ ui_event' = "commit"
             \/ mpc = "poll" /\ mpc' = "shutdown"
             \/ mpc = "poll" /\ mpc' = "drain" /\ Len(video_sink_threads) > 0]_vars

\* A rebuild failed at the configuration of a graph with an unlinked
\* sink (the sink was pushed, no thread was started), a frame passed in
\* which nothing was rebuilt, the user linked the sink and committed.
C30_Witness ==
    /\ mpc = "poll"
    /\ ui_event = "commit"
    /\ need_filters_reinit
    /\ setup_ret.ret = "skipped"
    /\ filter_graph = "live"
    /\ Len(buffer_sinks) > 0
    /\ Len(video_sink_threads) = 0
    /\ Len(filter_links) = 1
    /\ Buildable

\* C31 as stated: a rebuild in which a link resolves to a node index
\* outside filter_nodes returns an error without a connect call for that
\* link, starts no thread, and reads no node outside filter_nodes.
C31_RangeAbortReadsNoNodeOutside ==
    [][(mpc = "setup" /\ mpc' # "setup" /\ setup_ret'.indexed # {}) =>
          /\ setup_ret'.ret = "err"
          /\ video_sink_threads' = <<>>
          /\ ~ReadsOutside(filter_nodes, setup_ret'.indexed)]_vars

\* The worker of sink i has freed the sink's frames, label and texture.
Released(i) ==
    LET sink == At(buffer_sinks, i) IN
    /\ sink.a_frame = NullFrame /\ sink.b_frame = NullFrame
    /\ ~sink.texture /\ ~sink.label

\* The render loop goes through the sinks (line 1604).
Rendered == Len(mutexes) = Len(buffer_sinks)

C32_ReleasedNeverShown ==
    \A i \in Idx(buffer_sinks) :
       /\ (i \in Workers /\ WPc(i) = "done") => Released(i)
       /\ (Rendered /\ i \notin Workers) => Released(i)
       /\ (Released(i) /\ sink_i = i) =>
             /\ mpc = "draw" => render_frame = NullFrame
             /\ mpc = "swap" => drawn = NullFrame
       /\ (sink_i = i /\ mpc = "swap" /\ drawn # NullFrame) =>
             /\ drawn \in {At(buffer_sinks, i).a_frame, At(buffer_sinks, i).b_frame}
             /\ drawn \in {1, 2}
             /\ At(buffer_sinks, i).texture /\ At(buffer_sinks, i).label
             /\ i \in Workers /\ WPc(i) \notin {"exit", "done"}

C32_ReleaseUnderMutex ==
    \A i \in Workers \cap Idx(video_sink_threads') :
       (WPc(i) = "exit" /\ At(video_sink_threads', i).pc = "done") =>
          /\ At(mutexes, i) = "free"
          /\ ~Released(i) /\ Released(i)'
          /\ mpc \notin {"pick", "draw", "swap"}

\* C32: a worker that leaves worker_thread frees both frames, the label
\* and the texture of its sink, leaving NULL in a_frame and b_frame, with
\* the sink's mutex taken and while the render/UI thread is outside its
\* render loop. In every later frame in which the loop still goes through
\* that sink (after the drain of hidden outputs, or after a rebuild that
\* found no node) the loop picks NULL and draw_frame returns before
\* load_frame; what draw_frame uploads is always a frame of a sink whose
\* worker has not left its loop.
C32_NoUseAfterRelease ==
    [](C32_ReleasedNeverShown) /\ [][C32_ReleaseUnderMutex]_vars

\* After a drain of hidden outputs the render loop picked from a sink
\* whose worker had delivered frames and is gone.
C32_Witness ==
    /\ mpc = "draw"
    /\ Len(video_sink_threads) = 0
    /\ Len(buffer_sinks) > 0
    /\ Released(sink_i)
    /\ render_frame = NullFrame
    /\ filter_graph = "live"

\* C33 as stated: a request raised by the commit key is taken to
\* filters_setup (unless the window is closed first): the frame that
\* follows the commit does not enter the drain path, and the flag is
\* cleared only by a call of filters_setup that ran the rebuild, or by a
\* drain entered with no commit pending.
C33_CommitReachesRebuild ==
    [][/\ (mpc = "poll" /\ ui_event = "commit" /\ need_filters_reinit) =>
             mpc' # "drain"
       /\ (need_filters_reinit /\ ~need_filters_reinit') =>
             \/ mpc = "setup" /\ setup_ret'.ret # "skipped"
             \/ mpc = "drain"]_vars

\* C34 as stated: whatever the user added and removed, both slots of
\* every link of filter_links are indices of edge2pad as the last pass of
\* the editor built it from filter_nodes, so the reads of lines 266-269
\* stay inside edge2pad.
C34_LinkSlotsInTable ==
    mpc # "crashed" =>
       \A j \in Idx(filter_links) :
          /\ At(filter_links, j)[1] \in Idx(edge2pad)
          /\ At(filter_links, j)[2] \in Idx(edge2pad)

\* The index at which the node of index n stands once the nodes of R are
\* erased.
IndexAfter(n, R) == n - Cardinality({r \in R : r < n})

\* C35 as stated: a pass of the editor that removes nodes leaves every
\* link that stays, and whose two endpoint nodes stay, resolving to the
\* same pads of the same nodes in the slot table of the frames that follow.
C35_LinkKeepsEndpoints ==
    [][(mpc = "editor" /\ mpc' = "poll" /\ Len(filter_nodes') < Len(filter_nodes)) =>
          \A R \in RemovedSets : \A j \in Idx(filter_links) \cap Idx(filter_links') :
             LET old == EdgesOf(filter_nodes, 0, Len(filter_nodes))
                 new == EdgesOf(filter_nodes', 0, Len(filter_nodes'))
                 p == At(filter_links, j)
             IN  (/\ At(filter_links', j) = p
                  /\ p[1] \in Idx(old) /\ p[2] \in Idx(old)
                  /\ At(old, p[1]).node \notin R
                  /\ At(old, p[2]).node \notin R) =>
                    \A s \in {p[1], p[2]} :
                       /\ s \in Idx(new)
                       /\ At(new, s).node = IndexAfter(At(old, s).node, R)
                       /\ At(new, s).is_output = At(old, s).is_output
                       /\ At(new, s).pad_index = At(old, s).pad_index]_vars

\* C36 as stated: with no thread alive, a pass that handles the X key
\* with links selected leaves filter_links without the selected links and
\* with every other link, in their order, and its erase calls all name an
\* index inside filter_links, whatever links are selected and in whatever
\* order the selection is handed over.
C36_DeletesExactlySelected ==
    [][(/\ mpc = "editor" /\ ui_event' = "delete_selected"
        /\ Len(video_sink_threads) = 0
        /\ Len(selection') > 0) =>
          /\ ~EraseSelectedLinks(filter_links, selection', 1, "crash").crashed
          /\ mpc' # "crashed"
          /\ filter_links' =
                EraseMarked(filter_links,
                            {selection'[k] : k \in 1 .. Len(selection')})]_vars

\* The worker of sink i is between the unlock of line 126 and the lock of
\* line 136 or 140: a pull is under way or has just returned.
Pulling(i) == i \in Workers /\ WPc(i) \in {"pull", "relock"}

C37_NoPullWhileStaged ==
    \A i \in Workers \cap Idx(buffer_sinks) :
       Pulling(i) =>
          /\ ~At(buffer_sinks, i).uploaded_frame
          /\ WFrame(i) = At(buffer_sinks, i).a_frame

C37_PullAfterCheck ==
    \A i \in Workers \cap Idx(video_sink_threads') \cap Idx(buffer_sinks) :
       LET sink == At(buffer_sinks, i)
           starts == WPc(i) # "pull" /\ At(video_sink_threads', i).pc = "pull"
           delivers == /\ i \in Idx(sink_pts) /\ i \in Idx(sink_pts')
                       /\ At(sink_pts', i) > At(sink_pts, i)
       IN  /\ starts =>
                /\ WPc(i) = "check"
                /\ At(mutexes, i) = "worker"
                /\ ~sink.uploaded_frame
           /\ delivers =>
                /\ WPc(i) = "pull"
                /\ ~sink.uploaded_frame
                /\ sink.a_frame \in {1, 2}
                /\ At(av_frames', i)[sink.a_frame] = At(sink_pts', i)
                /\ sink.b_frame \in {1, 2} =>
                      At(av_frames', i)[sink.b_frame] = At(av_frames, i)[sink.b_frame]
           /\ (sink.uploaded_frame /\ mpc # "setup" /\ mpc # "drain") =>
                /\ i \in Idx(sink_pts) /\ i \in Idx(sink_pts')
                /\ At(sink_pts', i) = At(sink_pts, i)
                /\ i \in Idx(av_frames') /\ WPc(i) # "exit" =>
                      At(av_frames', i) = At(av_frames, i)

\* C37: a worker starts a pull only from the test of line 122, made with
\* the mutex held and finding uploaded_frame false; from then until it has
\* the mutex again the flag stays false, and the frame the pull delivers
\* goes into a_frame and leaves b_frame alone. While the flag is set the
\* worker pulls nothing and writes neither frame, paused or not: a staged
\* frame stays as it is until the render loop has swapped it to the front.
C37_Backpressure ==
    [](C37_NoPullWhileStaged) /\ [][C37_PullAfterCheck]_vars

\* Paused, with a delivered frame staged and frames left to pull: the
\* worker has found the flag set and is back at the top of its loop.
C37_Witness ==
    /\ paused /\ ~framestep
    /\ \E i \in Workers :
          /\ WPc(i) = "top" /\ WRet(i) = "ok"
          /\ At(buffer_sinks, i).uploaded_frame
          /\ At(sink_pts, i) = 1
          /\ At(sink_pts, i) < MaxFrames
          /\ FrameContent(i, At(buffer_sinks, i).a_frame) = 1

\* C38 as stated: while the system is paused, a swap of a sink's frames is
\* the first one of that sink since a single step was asked for with the
\* "." key; an output window that has lost the focus or was hidden since
\* makes no difference.
C38_OneSwapPerStep ==
    [][\A i \in Idx(buffer_sinks) :
          (Swaps(i) /\ paused) => (framestep /\ i \notin stepped)]_vars

\* The mutex of sink i is owned by the sink's worker.
Held(i) == i \in Idx(mutexes) /\ At(mutexes, i) = "worker"

\* The worker owns the mutex exactly from a lock (lines 121, 136, 140) to
\* the test of line 122 and the unlock that follows it (line 126 or 143).
C39_OwnedInCheck ==
    \A i \in Idx(mutexes) :
       Held(i) <=> (i \in Workers /\ WPc(i) = "check")

C39_LockUnlockMatch ==
    \A i \in Idx(mutexes) \cap Idx(mutexes') :
       /\ (~Held(i) /\ Held(i)') =>
             /\ i \in Workers /\ WPc(i) \in {"lock", "relock"}
             /\ At(video_sink_threads', i).pc = "check"
       /\ (Held(i) /\ ~Held(i)') =>
             /\ i \in Workers /\ WPc(i) = "check"
             /\ At(video_sink_threads', i).pc \in {"pull", "top"}
       /\ ((mpc \in {"pick", "swap"} /\ mpc' # mpc /\ sink_i = i) \/
           (i \in Workers /\ WPc(i) = "exit" /\ i \in Idx(video_sink_threads')
            /\ At(video_sink_threads', i).pc = "done")) =>
             ~Held(i) /\ ~Held(i)'

ShowsOnly == mpc = "editor" /\ ui_event' = "idle"

\* Every byte of a colour comes back from col[] as it went in.
ColorBytesKept == \A i \in 0 .. 255 : ToIcol(ToCol(i)) = i

====
